---- MODULE Spec2Model ----
(***************************************************************************)
(* A model of the Odie object-document mapper (lib/model/*.js): the        *)
(* working state `*`, the persisted snapshot `_*`, the writable-context    *)
(* registry, the change-set engine and the persistence operations, over a  *)
(* document store that answers asynchronously.                             *)
(*                                                                         *)
(* A JavaScript value is a record [t, s, n, kv]:                           *)
(*   t = "u"  undefined            t = "s"  one-character string s         *)
(*   t = "ds" ISO date string of instant n   t = "d"  Date of instant n    *)
(*   t = "id" ObjectId number n    t = "o"  object with properties kv      *)
(*   t = "a"  array, kv maps "0".."len-1" to the elements                  *)
(* A path is the sequence of the segments of a dot-delimited string.       *)
(***************************************************************************)
EXTENDS Integers, Sequences, FiniteSets, TLC

VARIABLES
    WRITABLE_PROPERTIES, \* Klass.WRITABLE_PROPERTIES: context -> list of paths, or NoRegistry
    READABLE_PROPERTIES, \* Klass.READABLE_PROPERTIES: context -> list of paths, or NoRegistry
    queryset,            \* a QuerySet and the toArray call made on it
    memoized,            \* instance.__NAME__ and the calls of its memoized getter
    origin,              \* the object a state was installed from, as its owner holds it
    state,               \* instance['*'],  the working state
    persisted,           \* instance['_*'], the persisted snapshot, or NoState
    shared,              \* paths at which `*` and `_*` hold the very same object
    db,                  \* the collection: id -> stored document, or NoDoc
    nextId,              \* the next identifier the store assigns
    now,                 \* the clock read by `new Date()`
    req,                 \* the storage request in flight for the instance, or Idle
    res,                 \* how the last operation settled: promise and callback
    wlog,                \* the last write applied to the store by save/updateWith
    found,               \* the outcome of the last class-level finder
    nops,                \* number of client calls made so far
    life,                \* history: "new", "hydrated", "saved" or "destroyed"
    installed            \* history: the snapshot hydrate/save/reload last installed

vars == <<WRITABLE_PROPERTIES, READABLE_PROPERTIES, queryset, memoized, origin, state, persisted, shared, db, nextId, now, req,
          res, wlog, found, nops, life, installed>>

-----------------------------------------------------------------------------
(* Bounds *)

MaxOps == 2       \* client calls per behaviour
MaxClock == 1     \* latest instant the clock shows
MaxId == 3        \* identifiers the store can hand out
MaxLen == 2       \* longest array the client calls build
MaxCalls == 3     \* calls on one QuerySet

-----------------------------------------------------------------------------
(* Values *)

Undef == [t |-> "u", s |-> "", n |-> 0, kv |-> <<>>]
Str(c) == [t |-> "s", s |-> c, n |-> 0, kv |-> <<>>]
DateStr(i) == [t |-> "ds", s |-> "", n |-> i, kv |-> <<>>]
DateV(i) == [t |-> "d", s |-> "", n |-> i, kv |-> <<>>]
OidV(i) == [t |-> "id", s |-> "", n |-> i, kv |-> <<>>]
IdBytes(i) == [t |-> "s", s |-> "#", n |-> i, kv |-> <<>>]
OidStr(i) == [t |-> "ids", s |-> "", n |-> i, kv |-> <<>>]
Obj(f) == [t |-> "o", s |-> "", n |-> 0, kv |-> f]
Arr(f) == [t |-> "a", s |-> "", n |-> 0, kv |-> f]
EmptyObj == Obj(<<>>)
Throw == [t |-> "throw", s |-> "", n |-> 0, kv |-> <<>>]
NoState == [t |-> "nostate", s |-> "", n |-> 0, kv |-> <<>>]
NoDoc == [t |-> "nodoc", s |-> "", n |-> 0, kv |-> <<>>]

\* no QuerySet, no memoized getter, no object a state was installed from
NoQuerySet == [records |-> <<>>, preloadList |-> FALSE, out |-> <<>>, link |-> <<>>,
               called |-> "none"]
NoMemo == [value |-> Undef, invoked |-> 0, inflight |-> 0, produced |-> Undef,
           call |-> "none", force |-> FALSE, before |-> Undef, resolved |-> Undef]
NoOrigin == [val |-> Undef, w |-> FALSE, p |-> FALSE]

Idx == <<"0", "1", "2", "3">>
IsIndex(k) == \E i \in 1..Len(Idx) : Idx[i] = k
IdxNum(k) == (CHOOSE i \in 1..Len(Idx) : Idx[i] = k) - 1
ArrOf(seq) == Arr([k \in {Idx[i] : i \in 1..Len(seq)} |-> seq[IdxNum(k) + 1]])
ArrLen(v) == Cardinality(DOMAIN v.kv)
ArrSeq(v) == [i \in 1..ArrLen(v) |-> v.kv[Idx[i]]]

\* Object.keys order is insertion order in JavaScript; the model lists keys in
\* this fixed order.
KeyOrder == <<"_id", "a", "ab", "b", "c", "l", "0", "1", "2", "3",
              "updated_at", "created_at", "_bsontype", "id">>
KeyPos(k) == CHOOSE i \in 1..Len(KeyOrder) : KeyOrder[i] = k

IsContainer(v) == v.t \in {"o", "a"}
HasKey(v, k) == IsContainer(v) /\ k \in DOMAIN v.kv
\* v[k] as JavaScript evaluates it; "x"["0"] is "x" for a one-character string
Prop(v, k) ==
    IF HasKey(v, k) THEN v.kv[k]
    ELSE IF v.t = "s" /\ v.s # "" /\ k = "0" THEN v
    ELSE Undef
Put(v, k, val) ==
    [v EXCEPT !.kv = [x \in (DOMAIN v.kv) \cup {k} |-> IF x = k THEN val ELSE v.kv[x]]]
Del(v, k) == [v EXCEPT !.kv = [x \in (DOMAIN v.kv) \ {k} |-> v.kv[x]]]
Keys(v) == SelectSeq(KeyOrder, LAMBDA k : HasKey(v, k))
\* undefined and the empty string are the falsy values of the model
Truthy(v) == v.t # "u" /\ ~(v.t = "s" /\ v.s = "" /\ v.n = 0)

-----------------------------------------------------------------------------
(* Paths as text: 'a.b' is the characters of a, a dot, the characters of b *)

Chars(k) ==
    CASE k = "a" -> <<"a">>
      [] k = "ab" -> <<"a", "b">>
      [] k = "b" -> <<"b">>
      [] k = "c" -> <<"c">>
      [] k = "l" -> <<"l">>
      [] k = "_id" -> <<"_", "i", "d">>
      [] k = "updated_at" -> <<"u", "p", "d", "a", "t", "e", "d", "_", "a", "t">>
      [] k = "created_at" -> <<"c", "r", "e", "a", "t", "e", "d", "_", "a", "t">>
      [] k = "_bsontype" -> <<"_", "b", "s", "o", "n", "t", "y", "p", "e">>
      [] k = "id" -> <<"i", "d">>
      [] OTHER -> <<k>>

RECURSIVE Text(_)
Text(path) ==
    IF path = <<>> THEN <<>>
    ELSE IF Len(path) = 1 THEN Chars(path[1])
    ELSE Chars(path[1]) \o <<".">> \o Text(Tail(path))

IsPrefix(p, q) == Len(p) <= Len(q) /\ SubSeq(q, 1, Len(p)) = p
IsStrictPrefix(p, q) == Len(p) < Len(q) /\ SubSeq(q, 1, Len(p)) = p

\* a membership test in place of the prefix test
isListedInSome(prop, list) == \E j \in 1..Len(list) : list[j] = prop

\* utils.isNestedInSome: new RegExp('^' + escapeRegExp(base)).test(prop)
isNestedInSome(prop, list) == \E j \in 1..Len(list) : IsPrefix(Text(list[j]), Text(prop))

\* utils.someAreNestedIn: new RegExp('^' + escapeRegExp(prop)).test(base)
someAreNestedIn(list, prop) == \E j \in 1..Len(list) : IsPrefix(Text(prop), Text(list[j]))

-----------------------------------------------------------------------------
(* Path addressing *)

\* utils.deepFetch: while (arr.length && (obj = obj[arr.shift()])) {}
RECURSIVE deepFetch(_, _)
deepFetch(obj, address) ==
    IF address = <<>> THEN obj
    ELSE LET c == Prop(obj, Head(address))
         IN IF Truthy(c) THEN deepFetch(c, Tail(address)) ELSE c

\* ref = getPathReferenceArray(root, path, {create: true}); ref[0][ref[1]] = val
\* Yields the new root, or Throw where JavaScript raises a TypeError.
RECURSIVE SetIn(_, _, _)
SetIn(v, path, val) ==
    LET k == Head(path) IN
    IF v.t = "u" THEN Throw
    ELSE IF Len(path) = 1
    THEN IF IsContainer(v) THEN Put(v, k, val) ELSE v
    ELSE IF IsContainer(v)
         THEN LET c == IF Prop(v, k).t = "u" THEN EmptyObj ELSE Prop(v, k)
                  r == SetIn(c, Tail(path), val)
              IN IF r = Throw THEN Throw ELSE Put(v, k, r)
         ELSE LET r == SetIn(Prop(v, k), Tail(path), val)
              IN IF r = Throw THEN Throw ELSE v

\* ref = getPathReferenceArray(root, path); delete ref[0][ref[1]]
RECURSIVE UnsetIn(_, _)
UnsetIn(v, path) ==
    LET k == Head(path) IN
    IF v.t = "u" THEN Throw
    ELSE IF Len(path) = 1
    THEN IF IsContainer(v) THEN Del(v, k) ELSE v
    ELSE LET r == UnsetIn(Prop(v, k), Tail(path))
         IN IF r = Throw THEN Throw
            ELSE IF HasKey(v, k) THEN Put(v, k, r) ELSE v

\* The value the no-create walk ends on: ref[0][ref[1]], or Throw
RECURSIVE RefValue(_, _)
RefValue(v, path) ==
    IF v.t = "u" THEN Throw
    ELSE IF Len(path) = 1 THEN Prop(v, Head(path))
    ELSE RefValue(Prop(v, Head(path)), Tail(path))

-----------------------------------------------------------------------------
(* Dual-state store: JSON.parse(JSON.stringify(x), JSONReHydrationHandler) *)

RECURSIVE JSONCopy(_)
JSONCopy(v) ==
    CASE v.t = "ds" -> DateV(v.n)
      [] v.t = "ids" -> OidV(v.n)
      [] v.t = "o" ->
            Obj([k \in {x \in DOMAIN v.kv : v.kv[x].t # "u"} |-> JSONCopy(v.kv[k])])
      [] v.t = "a" -> Arr([k \in DOMAIN v.kv |-> JSONCopy(v.kv[k])])
      [] OTHER -> v

-----------------------------------------------------------------------------
(* An instance: working state w, persisted snapshot p, the paths sh at which *)
(* both hold one and the same object, and ex = TRUE when the call threw.     *)

Inst(w, p, sh) == [w |-> w, p |-> p, sh |-> sh, ex |-> FALSE]
Thrown(i) == [i EXCEPT !.ex = TRUE]
Front(q) == SubSeq(q, 1, Len(q) - 1)

\* utils.getPersistedState(this) || {}
Persisted(p) == IF p = NoState THEN EmptyObj ELSE p

\* The working state became w2 by a mutation of the object at path `site`
\* that replaced what was at path q. A mutation inside an object that the
\* persisted snapshot also holds shows in the snapshot.
Commit(i, site, q, w2) ==
    IF \E s \in i.sh : IsPrefix(s, site)
    THEN LET s0 == CHOOSE s \in i.sh : IsPrefix(s, site)
         IN [i EXCEPT !.w = w2, !.p = SetIn(i.p, s0, deepFetch(w2, s0))]
    ELSE [i EXCEPT !.w = w2, !.sh = {s \in i.sh : ~IsPrefix(q, s)}]

\* Klass.prototype.set
set(i, property, value) ==
    LET w2 == SetIn(i.w, property, value)
    IN IF w2 = Throw THEN Thrown(i) ELSE Commit(i, Front(property), property, w2)

\* Klass.prototype.unset
unset(i, property) ==
    LET w2 == UnsetIn(i.w, property)
    IN IF w2 = Throw THEN Thrown(i) ELSE Commit(i, Front(property), property, w2)

\* Klass.prototype.get(property)
get(i, property) == deepFetch(i.w, property)

\* Klass.prototype.get(property, def)
getOr(i, property, def) ==
    LET actualValue == deepFetch(i.w, property)
    IN IF actualValue.t = "u" THEN def ELSE actualValue

\* Klass.prototype.reset(path): this.set(path, deepFetch(persisted || {}, path))
\* stores the snapshot's own object, not a copy of it.
reset(i, path) ==
    LET val == deepFetch(Persisted(i.p), path)
        i2 == set(i, path, val)
    IN IF ~i2.ex /\ IsContainer(val) /\ RefValue(i2.w, path) = val
          /\ ~(\E s \in i2.sh : IsPrefix(s, path))
       THEN [i2 EXCEPT !.sh = @ \cup {path}]
       ELSE i2

\* Klass.prototype.reset(): utils.setState(this, persisted || {})
resetAll(i) == [i EXCEPT !.w = JSONCopy(Persisted(i.p)), !.sh = {}]

\* Klass.prototype.push / unshift: atEnd selects push
insertInArray(i, property, value, atEnd) ==
    LET r0 == RefValue(i.w, property)
        fresh == r0 \in {Throw, Undef}
        w1 == IF fresh THEN SetIn(i.w, property, ArrOf(<<>>)) ELSE i.w
    IN IF w1 = Throw THEN Thrown(i)
       ELSE LET arr == RefValue(w1, property)
            IN IF arr.t # "a" THEN Thrown(i)
               ELSE LET els == IF atEnd THEN Append(ArrSeq(arr), value)
                                        ELSE <<value>> \o ArrSeq(arr)
                        w2 == SetIn(w1, property, ArrOf(els))
                    IN IF fresh THEN Commit(i, Front(property), property, w2)
                       ELSE Commit(i, property, property, w2)
push(i, property, value) == insertInArray(i, property, value, TRUE)
unshift(i, property, value) == insertInArray(i, property, value, FALSE)

\* Klass.prototype.splice(property, index, length)
splice(i, property, index, length) ==
    LET arr == RefValue(i.w, property)
    IN IF arr = Throw \/ arr.t # "a" THEN Thrown(i)
       ELSE LET els == ArrSeq(arr)
                from == IF index > Len(els) THEN Len(els) ELSE index
                upto == IF from + length > Len(els) THEN Len(els) ELSE from + length
                kept == SubSeq(els, 1, from) \o SubSeq(els, upto + 1, Len(els))
            IN Commit(i, property, property, SetIn(i.w, property, ArrOf(kept)))

-----------------------------------------------------------------------------
(* Change-set engine: deepDiff.diff(persisted || {}, working) *)

Chg(kind, path, lhs, rhs) == [kind |-> kind, path |-> path, lhs |-> lhs, rhs |-> rhs]

\* deep-diff's realTypeOf
RealType(v) ==
    CASE v.t \in {"s", "ds"} -> "string"
      [] v.t = "d" -> "date"
      [] v.t = "a" -> "array"
      [] v.t \in {"o", "id"} -> "object"
      [] OTHER -> "undefined"

\* an ObjectId is an object with the own properties _bsontype and id
AsObject(v) ==
    IF v.t = "id"
    THEN Obj([k \in {"_bsontype", "id"} |-> IF k = "id" THEN IdBytes(v.n) ELSE Str("O")])
    ELSE v

RECURSIVE deepDiff(_, _, _), diffArray(_, _, _, _), diffKeys(_, _, _, _)
deepDiff(lhs, rhs, path) ==
    IF lhs.t = "u"
    THEN IF rhs.t # "u" THEN <<Chg("N", path, Undef, rhs)>> ELSE <<>>
    ELSE IF rhs.t = "u" THEN <<Chg("D", path, lhs, Undef)>>
    ELSE IF RealType(lhs) # RealType(rhs) THEN <<Chg("E", path, lhs, rhs)>>
    ELSE IF lhs.t = "d"
         THEN IF lhs.n # rhs.n THEN <<Chg("E", path, lhs, rhs)>> ELSE <<>>
    ELSE IF lhs.t = "a" THEN diffArray(lhs, rhs, path, 0)
    ELSE IF lhs.t = "o" \/ rhs.t = "o"
         THEN LET l == AsObject(lhs)
                  r == AsObject(rhs)
              IN diffKeys(l, r, path, Keys(l))
                   \o diffKeys(Obj(<<>>), r, path,
                               SelectSeq(Keys(r), LAMBDA k : ~HasKey(l, k)))
    ELSE IF lhs # rhs
         THEN <<Chg("E", IF lhs.t = "id" THEN path \o <<"id">> ELSE path, lhs, rhs)>>
         ELSE <<>>

\* for (i = 0; i < lhs.length; i++) ...; while (i < rhs.length) ...
diffArray(lhs, rhs, path, i) ==
    IF i < ArrLen(lhs)
    THEN (IF i >= ArrLen(rhs)
          THEN <<Chg("A", path, lhs.kv[Idx[i + 1]], Undef)>>
          ELSE deepDiff(lhs.kv[Idx[i + 1]], rhs.kv[Idx[i + 1]], path \o <<Idx[i + 1]>>))
         \o diffArray(lhs, rhs, path, i + 1)
    ELSE IF i < ArrLen(rhs)
    THEN <<Chg("A", path, Undef, rhs.kv[Idx[i + 1]])>> \o diffArray(lhs, rhs, path, i + 1)
    ELSE <<>>

\* akeys.forEach(...) and then pkeys.forEach(...)
diffKeys(lhs, rhs, path, ks) ==
    IF ks = <<>> THEN <<>>
    ELSE deepDiff(Prop(lhs, Head(ks)), Prop(rhs, Head(ks)), path \o <<Head(ks)>>)
           \o diffKeys(lhs, rhs, path, Tail(ks))

\* getChangeSet: the list of changes; deep-diff yields undefined for none
getChangeSet(i) == deepDiff(Persisted(i.p), i.w, <<>>)
NoChanges(i) == getChangeSet(i) = <<>>

\* require('flat'): the leaf paths of an object, empty containers being leaves
RECURSIVE flatten(_, _), flattenKeys(_, _, _)
flatten(v, prefix) == flattenKeys(AsObject(v), prefix, Keys(AsObject(v)))
flattenKeys(v, prefix, ks) ==
    IF ks = <<>> THEN <<>>
    ELSE LET c == v.kv[Head(ks)]
             here == prefix \o <<Head(ks)>>
         IN (IF (IsContainer(c) /\ DOMAIN c.kv # {}) \/ c.t = "id"
             THEN flatten(c, here)
             ELSE <<here>>)
            \o flattenKeys(v, prefix, Tail(ks))

\* typeof x === 'object' && Object.keys(x).length > 0
HasOwnKeys(v) == (IsContainer(v) /\ DOMAIN v.kv # {}) \/ v.t = "id"

RECURSIVE AddAll(_, _)
AddAll(accum, ps) ==
    IF ps = <<>> THEN accum
    ELSE AddAll(IF \E j \in 1..Len(accum) : accum[j] = Head(ps)
                THEN accum ELSE Append(accum, Head(ps)), Tail(ps))

\* the reduce of getChangedFields: the keys of accum, in insertion order
RECURSIVE changedProps(_, _)
changedProps(changeSet, accum) ==
    IF changeSet = <<>> THEN accum
    ELSE LET change == Head(changeSet)
             \* an array change holds its sides in change.item: change.rhs is undefined
             one == IF change.kind = "A" \/ ~HasOwnKeys(change.rhs)
                    THEN <<change.path>>
                    ELSE flatten(change.rhs, change.path)
                           \o (IF HasOwnKeys(change.lhs)
                               THEN flatten(change.lhs, change.path) ELSE <<>>)
         IN changedProps(Tail(changeSet), AddAll(accum, one))

\* the filter of getChangedFields: drop a key nested in another present key
nestedFilter(props) ==
    SelectSeq(props, LAMBDA prop :
        ~isNestedInSome(prop, SelectSeq(props, LAMBDA other : other # prop)))

\* getChangedFields / Klass.prototype.dirtyFields
getChangedFields(i) == nestedFilter(changedProps(getChangeSet(i), <<>>))
dirtyFields(i) == getChangedFields(i)

\* Klass.prototype.isDirty()
isDirty(i) == ~NoChanges(i)

-----------------------------------------------------------------------------
(* Access context model. A registry maps a context name to its list of paths;*)
(* a model that never called Klass.writable has the empty registry.          *)

NoRegistry == <<>>

\* utils.getObservationContext({as: as, prop: 'WRITABLE_PROPERTIES'});
\* as = "" stands for an omitted `as`
getObservationContext(reg, as) ==
    IF as = "_all" \/ DOMAIN reg = {} THEN "_all"
    ELSE LET a == IF as = "" THEN "default" ELSE as
         IN IF a \in DOMAIN reg THEN a ELSE "default"

\* Klass.prototype.canWrite(property, {as: as})
canWrite(reg, property, as) ==
    LET observationContext == getObservationContext(reg, as)
    IN IF observationContext = "_all" THEN TRUE
       ELSE LET allowedProps == IF observationContext \in DOMAIN reg
                                THEN reg[observationContext] ELSE <<>>
            IN isNestedInSome(property, allowedProps)

\* the reduce of clean that finds the 'divergence point' of a field
RECURSIVE divergence(_, _, _)
divergence(allowedProps, accum, parts) ==
    IF parts = <<>> THEN accum
    ELSE divergence(allowedProps,
                    IF someAreNestedIn(allowedProps, accum)
                    THEN accum \o <<Head(parts)>> ELSE accum,
                    Tail(parts))

\* one iteration of the forEach of clean
cleanField(i, reg, ctx, field) ==
    IF canWrite(reg, field, ctx) THEN i
    ELSE IF Len(field) > 1 /\ ctx \notin DOMAIN reg
         THEN Thrown(i)   \* allowedProps is undefined: list.some raises a TypeError
    ELSE LET allowedProps == IF ctx \in DOMAIN reg THEN reg[ctx] ELSE <<>>
             lcd == divergence(allowedProps, <<Head(field)>>, Tail(field))
             i2 == reset(i, lcd)
         IN IF i2.ex THEN i2
            ELSE IF get(i2, lcd).t = "u" THEN unset(i2, lcd) ELSE i2

RECURSIVE cleanFields(_, _, _, _)
cleanFields(i, reg, ctx, fields) ==
    IF fields = <<>> \/ i.ex THEN i
    ELSE cleanFields(cleanField(i, reg, ctx, Head(fields)), reg, ctx, Tail(fields))

\* Klass.prototype.clean({as: as})
clean(i, reg, as) ==
    LET ctx == getObservationContext(reg, as)
    IN IF ctx = "_all" THEN i ELSE cleanFields(i, reg, ctx, dirtyFields(i))

-----------------------------------------------------------------------------
(* The update patch *)

Digits == {"0", "1", "2", "3", "4", "5", "6", "7", "8", "9"}

\* new RegExp('^' + escapeRegExp(path) + '\\.[\\d]+').test(key)
testPattern(path, key) ==
    LET b == Text(path)
        t == Text(key)
    IN /\ Len(t) >= Len(b) + 2
       /\ SubSeq(t, 1, Len(b)) = b
       /\ t[Len(b) + 1] = "."
       /\ t[Len(b) + 2] \in Digits

\* An update query: hasSet/hasUnset tell whether the $set/$unset key exists,
\* set maps each $set path to its value, unset is the set of $unset paths.
\* kind is "query", "none" (getUpdateQuery returned undefined) or "throw".
Query(hasSet, setm, hasUnset, unsetp) ==
    [kind |-> "query", hasSet |-> hasSet, set |-> setm,
     hasUnset |-> hasUnset, unset |-> unsetp]
NoQuery == [kind |-> "none", hasSet |-> FALSE, set |-> <<>>, hasUnset |-> FALSE, unset |-> {}]
ThrowQuery == [kind |-> "throw", hasSet |-> FALSE, set |-> <<>>, hasUnset |-> FALSE, unset |-> {}]

MapPut(f, k, v) == [x \in (DOMAIN f) \cup {k} |-> IF x = k THEN v ELSE f[x]]
MapDrop(f, ks) == [x \in (DOMAIN f) \ ks |-> f[x]]

\* the changeset.forEach of getUpdateQuery
RECURSIVE collectChanges(_, _, _)
collectChanges(changeset, q, arrayPaths) ==
    IF changeset = <<>> THEN <<q, arrayPaths>>
    ELSE LET change == Head(changeset)
             q2 == IF change.kind \in {"N", "E"}
                   THEN [q EXCEPT !.set = MapPut(q.set, change.path, change.rhs)]
                   ELSE IF change.kind = "D"
                   THEN [q EXCEPT !.hasUnset = TRUE, !.unset = @ \cup {change.path}]
                   ELSE q
             ap2 == IF change.kind = "A" THEN AddAll(arrayPaths, <<change.path>>)
                    ELSE arrayPaths
         IN collectChanges(Tail(changeset), q2, ap2)

\* the arrayPaths.toArray().forEach of getUpdateQuery
RECURSIVE replaceArrays(_, _, _)
replaceArrays(q, arrayPaths, i) ==
    IF arrayPaths = <<>> \/ q.kind = "throw" THEN q
    ELSE LET path == Head(arrayPaths)
             set1 == MapDrop(q.set, {k \in DOMAIN q.set : testPattern(path, k)})
             hasSet1 == q.hasSet /\ DOMAIN set1 # {}
             unset1 == {k \in q.unset : ~testPattern(path, k)}
             hasUnset1 == q.hasUnset /\ unset1 # {}
         IN IF ~hasSet1 THEN ThrowQuery   \* updateQuery.$set is undefined
            ELSE replaceArrays(Query(TRUE, MapPut(set1, path, get(i, path)),
                                     hasUnset1, unset1),
                               Tail(arrayPaths), i)

\* getUpdateQuery(instance)
getUpdateQuery(i) ==
    LET changeset == getChangeSet(i)
    IN IF changeset = <<>> THEN NoQuery
       ELSE LET c == collectChanges(changeset, Query(TRUE, <<>>, FALSE, {}), <<>>)
            IN replaceArrays(c[1], c[2], i)

-----------------------------------------------------------------------------
(* The document store: update-by-filter-and-patch as the store applies it *)

MErr == [t |-> "merr", s |-> "", n |-> 0, kv |-> <<>>]

\* $set of one dotted path: embedded documents are created as needed, array
\* elements are addressed by index, a scalar on the way is an error
RECURSIVE storeSet(_, _, _)
storeSet(v, path, val) ==
    LET k == Head(path) IN
    IF ~IsContainer(v) THEN MErr
    ELSE IF Len(path) = 1 THEN Put(v, k, val)
    ELSE LET r == storeSet(IF HasKey(v, k) THEN v.kv[k] ELSE EmptyObj, Tail(path), val)
         IN IF r = MErr THEN MErr ELSE Put(v, k, r)

\* $unset of one dotted path: a missing path is left alone. (The store puts
\* null in an unset array element; no patch of the model unsets one.)
RECURSIVE storeUnset(_, _)
storeUnset(v, path) ==
    LET k == Head(path) IN
    IF ~HasKey(v, k) THEN v
    ELSE IF Len(path) = 1 THEN Del(v, k)
    ELSE Put(v, k, storeUnset(v.kv[k], Tail(path)))

RECURSIVE storeSetAll(_, _, _)
storeSetAll(doc, setm, todo) ==
    IF todo = {} \/ doc = MErr THEN doc
    ELSE LET k == CHOOSE x \in todo : TRUE
         IN storeSetAll(storeSet(doc, k, setm[k]), setm, todo \ {k})

RECURSIVE storeUnsetAll(_, _)
storeUnsetAll(doc, todo) ==
    IF todo = {} \/ doc = MErr THEN doc
    ELSE LET k == CHOOSE x \in todo : TRUE
         IN storeUnsetAll(storeUnset(doc, k), todo \ {k})

\* The stored document after the update, or MErr when the store rejects it:
\* an empty $set, or two paths of which one lies on the other.
applyUpdate(doc, q) ==
    LET paths == (DOMAIN q.set) \cup q.unset
    IN IF q.hasSet /\ DOMAIN q.set = {} THEN MErr
       ELSE IF (DOMAIN q.set) \cap q.unset # {} THEN MErr
       ELSE IF \E a \in paths, b \in paths : a # b /\ IsPrefix(a, b) THEN MErr
       ELSE storeUnsetAll(storeSetAll(doc, q.set, DOMAIN q.set), q.unset)

DocIds == 1..MaxId

\* documents matching a filter: crit.by = "id" matches on _id, "a" on a
Matches(store, crit) ==
    {i \in DocIds : /\ store[i] # NoDoc
                    /\ IF crit.by = "id" THEN i = crit.n
                       ELSE Prop(store[i], "a") = Str(crit.s)}

\* variant of adoptStored: only the snapshot is replaced
adoptSnapshotOnly(i, doc) == Inst(i.w, JSONCopy(doc), {})

\* setPersistedState and setState with the same stored document, as save does
\* with the inserted record and reload with the fetched one
adoptStored(i, doc) == Inst(JSONCopy(doc), JSONCopy(doc), {})

\* Klass.hydrate: the working state and snapshot of the instance it builds
hydrate(doc) == Inst(JSONCopy(doc), JSONCopy(doc), {})

\* variant of getOutcome: two matches are let through
getOutcomeLax(store, crit) ==
    LET m == Matches(store, crit)
    IN IF m = {} THEN [status |-> "resolved", err |-> "none", doc |-> Undef]
       ELSE IF Cardinality(m) > 2
       THEN [status |-> "rejected", err |-> "resultError", doc |-> Undef]
       ELSE [status |-> "resolved", err |-> "none",
             doc |-> hydrate(store[CHOOSE i \in m : TRUE]).w]

\* Klass.get: no match resolves undefined, one match resolves the hydrated
\* instance, count > 1 rejects with a resultError
getOutcome(store, crit) ==
    LET m == Matches(store, crit)
    IN IF m = {} THEN [status |-> "resolved", err |-> "none", doc |-> Undef]
       ELSE IF Cardinality(m) > 1
       THEN [status |-> "rejected", err |-> "resultError", doc |-> Undef]
       ELSE [status |-> "resolved", err |-> "none",
             doc |-> hydrate(store[CHOOSE i \in m : TRUE]).w]

\* Klass.find(...).toArray: every match, hydrated
findOutcome(store, crit) == {hydrate(store[i]).w : i \in Matches(store, crit)}

-----------------------------------------------------------------------------
(* Inputs of the client calls *)

sx == Str("x")
sy == Str("y")

SetInputs == {<<<<"a">>, sx>>, <<<<"ab">>, sy>>, <<<<"a", "b">>, sy>>,
              <<<<"a", "c">>, sx>>, <<<<"ab">>, DateStr(1)>>}
UnsetInputs == {<<"a", "b">>, <<"ab">>}
ResetInputs == {<<"a">>, <<"l">>}
ArrayPath == <<"l">>
SplicePaths == {<<"l">>, <<"ab">>}
Contexts == {"", "priv"}
\* save options: <<as, clean>>
SaveOptions == {<<"", TRUE>>, <<"priv", TRUE>>, <<"", FALSE>>}
UpdateData == {Obj([k \in {"a"} |-> Obj([j \in {"c"} |-> sy])])}
DirectData == {Obj([k \in {"ab"} |-> sx])}
ValidationFailures == {<<"a">>}
Criteria == {[by |-> "id", n |-> 1, s |-> ""], [by |-> "a", n |-> 0, s |-> "x"]}

\* registries: none declared, or writable(['a.c']) and
\* writable('priv', ['a.c', 'ab', 'l'])
RegA == [c \in {"default", "priv"} |->
            IF c = "default" THEN <<(<<"a", "c">>)>>
            ELSE <<(<<"a", "c">>), <<"ab">>, <<"l">>>>]
Registries == {NoRegistry, RegA}

\* what `new Klass(properties)` is given
InitialProperties ==
    {EmptyObj,
     Obj([k \in {"a", "ab"} |-> IF k = "a" THEN sx ELSE sy]),
     Obj([k \in {"a"} |-> Obj([j \in {"b"} |-> sx])])}

\* `new Klass(properties)` given the identifier of stored document 1
PropertiesWithId == Obj([k \in {"_id", "ab"} |-> IF k = "_id" THEN OidV(1) ELSE sy])

\* initial collections, written at instant 0
Doc1 == Obj([k \in {"_id", "a", "ab", "l", "updated_at"} |->
            CASE k = "_id" -> OidV(1)
              [] k = "a" -> Obj([j \in {"b"} |-> sx])
              [] k = "ab" -> ArrOf(<<sx>>)
              [] k = "l" -> ArrOf(<<sx, sy>>)
              [] OTHER -> DateV(0)])
Doc2(i) == Obj([k \in {"_id", "a", "updated_at"} |->
            CASE k = "_id" -> OidV(i)
              [] k = "a" -> sx
              [] OTHER -> DateV(0)])
Stores == {[i \in DocIds |-> NoDoc],
           [i \in DocIds |-> IF i = 1 THEN Doc1 ELSE NoDoc],
           [i \in DocIds |-> IF i \in {1, 2} THEN Doc2(i) ELSE NoDoc]}

-----------------------------------------------------------------------------
(* Outcomes: the promise (promise, err, msg, val) and the callback (cb calls, *)
(* cerr, cval) of the last call; promise = "threw" is a synchronous throw.    *)
(* The call's inputs are kept with it: as (the context given), invalid (what  *)
(* validate() reported) and store (how the store answered).                   *)

NoRes == [op |-> "none", promise |-> "none", err |-> "none", msg |-> "", val |-> 0,
          cb |-> 0, cstat |-> "none", cerr |-> "none", cval |-> 0, branch |-> "",
          fields |-> {}, as |-> "", invalid |-> {}, store |-> ""]
Pending(op) == [NoRes EXCEPT !.op = op, !.promise = "pending"]
Threw(op) == [NoRes EXCEPT !.op = op, !.promise = "threw", !.err = "TypeError"]
\* promise and callback are both given err and val; a callback called with no
\* error reads as a success (cstat = "ok")
Both(op, promise, err, msg, val, branch) ==
    [NoRes EXCEPT !.op = op, !.promise = promise, !.err = err, !.msg = msg, !.val = val,
                  !.cb = 1, !.cstat = IF err = "none" THEN "ok" ELSE "err",
                  !.cerr = err, !.cval = val, !.branch = branch]
\* only the promise settles
PromiseOnly(op, promise, err, msg, val, branch) ==
    [NoRes EXCEPT !.op = op, !.promise = promise, !.err = err, !.msg = msg, !.val = val,
                  !.branch = branch]

Idle == [op |-> "idle", stage |-> "", id |-> 0, doc |-> Undef, q |-> NoQuery,
         as |-> "", clean |-> FALSE]
Request(op, stage, id, doc, q, as, cl) ==
    [op |-> op, stage |-> stage, id |-> id, doc |-> doc, q |-> q, as |-> as, clean |-> cl]

NoWrite == [kind |-> "none", before |-> NoDoc, after |-> NoDoc, as |-> "", clean |-> FALSE]
NoFound == [kind |-> "none", crit |-> [by |-> "", n |-> 0, s |-> ""],
            status |-> "", err |-> "none", doc |-> Undef, all |-> {}]

IdOf(doc) == IF Prop(doc, "_id").t = "id" THEN Prop(doc, "_id").n ELSE 0
Cur == Inst(state, persisted, shared)
Adopt(i) == state' = i.w /\ persisted' = i.p /\ shared' = i.sh
isNew == persisted = NoState

-----------------------------------------------------------------------------
(* Initial states: a model with or without a writable registry, a collection, *)
(* and an instance that is either `new Klass(properties)`, with or without   *)
(* the identifier of a stored document, or hydrated from document 1.          *)

Init ==
    /\ WRITABLE_PROPERTIES \in Registries
    /\ READABLE_PROPERTIES = NoRegistry
    /\ queryset = NoQuerySet
    /\ memoized = NoMemo
    /\ origin = NoOrigin
    /\ db \in Stores
    /\ nextId = Cardinality({i \in DocIds : db[i] # NoDoc}) + 1
    /\ \/ /\ \E properties \in InitialProperties : state = JSONCopy(properties)
          /\ persisted = NoState
          /\ life = "new"
       \/ /\ db[1] # NoDoc
          /\ state = JSONCopy(PropertiesWithId)
          /\ persisted = NoState
          /\ life = "new"
       \/ /\ db[1] # NoDoc
          /\ state = hydrate(db[1]).w
          /\ persisted = hydrate(db[1]).p
          /\ life = "hydrated"
    /\ installed = persisted
    /\ shared = {}
    /\ now = 0
    /\ req = Idle
    /\ res = NoRes
    /\ wlog = NoWrite
    /\ found = NoFound
    /\ nops = 0

\* a client call starts: the instance is not busy and the call budget is left
CanCall == req = Idle /\ nops < MaxOps
Called == nops' = nops + 1 /\ wlog' = NoWrite /\ found' = NoFound
Frame == UNCHANGED <<WRITABLE_PROPERTIES, READABLE_PROPERTIES, queryset, memoized, origin, db, nextId, now, life, installed>>

\* the clock advances; `new Date()` is read when a call starts, so only the
\* advances between calls are told apart
Tick ==
    /\ req = Idle
    /\ now < MaxClock
    /\ now' = now + 1
    /\ UNCHANGED <<WRITABLE_PROPERTIES, READABLE_PROPERTIES, queryset, memoized, origin, state, persisted, shared, db, nextId, req,
                   res, wlog, found, nops, life, installed>>

-----------------------------------------------------------------------------
(* Mutators: synchronous calls on the working state *)

Mutated(name, as, i) ==
    /\ Adopt([i EXCEPT !.ex = FALSE])
    /\ res' = [IF i.ex THEN Threw(name) ELSE [NoRes EXCEPT !.op = name] EXCEPT !.as = as]
    /\ req' = req
    /\ Called
    /\ Frame

Set ==
    \E in \in SetInputs :
        /\ CanCall
        /\ Mutated("set", "", set(Cur, in[1], in[2]))

Unset ==
    \E path \in UnsetInputs :
        /\ CanCall
        /\ Mutated("unset", "", unset(Cur, path))

Push ==
    /\ CanCall
    /\ ArrLen(deepFetch(state, ArrayPath)) < MaxLen
    /\ Mutated("push", "", push(Cur, ArrayPath, sx))

Unshift ==
    /\ CanCall
    /\ ArrLen(deepFetch(state, ArrayPath)) < MaxLen
    /\ Mutated("unshift", "", unshift(Cur, ArrayPath, sy))

Splice ==
    \E path \in SplicePaths :
        /\ CanCall
        /\ Mutated("splice", "", splice(Cur, path, 0, 1))

\* reset(path), for a path the persisted snapshot holds
Reset ==
    \E path \in ResetInputs :
        /\ CanCall
        /\ deepFetch(Persisted(persisted), path) # Undef
        /\ Mutated("reset", "", reset(Cur, path))

ResetAll ==
    /\ CanCall
    /\ Mutated("reset", "", resetAll(Cur))

Clean ==
    \E as \in Contexts :
        /\ CanCall
        /\ Mutated("clean", as, clean(Cur, WRITABLE_PROPERTIES, as))

-----------------------------------------------------------------------------
(* Persistence: the synchronous part of each call *)

\* save rejects for the failures validate() reported
saveInvalid(i, op, errors) ==
    [inst |-> i, req |-> Idle,
     res |-> [Both(op, "rejected", "validationError", "Validation failed", 0,
                   "validate") EXCEPT !.fields = errors]]

\* save's insert branch: i3 is the instance with created_at set
saveInsert(i3, op, as, doClean) ==
    [inst |-> i3, res |-> Pending(op),
     req |-> Request(op, "insert", 0, i3.w, NoQuery, as, doClean)]

\* save from isNew() on: i2 is the stamped instance, q its update query
savePersist(i, i2, q, op, as, doClean) ==
    IF i.p = NoState
    THEN saveInsert(set(i2, <<"created_at">>, DateV(now)), op, as, doClean)
    ELSE IF q.kind = "throw"
    THEN [inst |-> i2, req |-> Idle, res |-> Threw(op)]
    ELSE IF q.kind = "none"
    THEN [inst |-> i2, req |-> Idle,
          res |-> Both(op, "resolved", "none", "", IdOf(i2.w), "noop")]
    ELSE [inst |-> i2, res |-> Pending(op),
          req |-> Request(op, "update", IdOf(i.p), Undef, q, as, doClean)]

saveStamped(i, i2, op, as, doClean) ==
    savePersist(i, i2, getUpdateQuery(i2), op, as, doClean)

\* save from the stamp on: i1 is the instance as clean left it
saveStamp(i, i1, op, as, doClean) ==
    IF i1.ex
    THEN [inst |-> [i1 EXCEPT !.ex = FALSE], req |-> Idle, res |-> Threw(op)]
    ELSE saveStamped(i, set(i1, <<"updated_at">>, DateV(now)), op, as, doClean)

\* variant of saveCall: validate() is consulted after the clean and the stamp
validateStamped(i, i2, op, as, doClean, errors) ==
    IF errors # {} THEN saveInvalid(i2, op, errors)
    ELSE saveStamped(i, i2, op, as, doClean)
stampFirst(i, i1, op, as, doClean, errors) ==
    IF i1.ex
    THEN [inst |-> [i1 EXCEPT !.ex = FALSE], req |-> Idle, res |-> Threw(op)]
    ELSE validateStamped(i, set(i1, <<"updated_at">>, DateV(now)), op, as, doClean,
                         errors)
saveCallStampFirst(i, op, as, doClean, errors) ==
    stampFirst(i, IF doClean THEN clean(i, WRITABLE_PROPERTIES, as) ELSE i, op, as,
               doClean, errors)

\* Klass.prototype.save up to the storage request; errors is what validate()
\* returned. Yields the instance, the request issued and the outcome so far.
saveCall(i, op, as, doClean, errors) ==
    IF errors # {} THEN saveInvalid(i, op, errors)
    ELSE saveStamp(i, IF doClean THEN clean(i, WRITABLE_PROPERTIES, as) ELSE i, op, as,
                   doClean)

\* the call returns: c holds the instance, the request and the outcome so far
Issue(c) == Adopt(c.inst) /\ req' = c.req /\ res' = c.res

Save ==
    \E opt \in SaveOptions, errors \in {{}, ValidationFailures} :
        /\ CanCall
        /\ Issue([saveCall(Cur, "save", opt[1], opt[2], errors)
                    EXCEPT !.res.as = opt[1], !.res.invalid = errors])
        /\ Called
        /\ Frame

\* the forEach of updateWith: set every flattened property of the data
RECURSIVE setAll(_, _, _)
setAll(i, data, props) ==
    IF props = <<>> \/ i.ex THEN i
    ELSE setAll(set(i, Head(props), deepFetch(data, Head(props))), data, Tail(props))

\* updateWith once the data is merged into i1: it calls save with its options
updateWithCall(i1) ==
    IF i1.ex
    THEN [inst |-> [i1 EXCEPT !.ex = FALSE], req |-> Idle, res |-> Threw("updateWith")]
    ELSE saveCall(i1, "updateWith", "", TRUE, {})

UpdateWith ==
    \E data \in UpdateData :
        /\ CanCall
        /\ Issue(updateWithCall(setAll(Cur, data, flatten(data, <<>>))))
        /\ Called
        /\ Frame

\* the query of directUpdateWith: $-keys verbatim, every other key under $set
directQuery(context) ==
    LET setm == [k \in {<<j>> : j \in DOMAIN context.kv} |-> context.kv[k[1]]]
    IN Query(DOMAIN setm # {}, setm, FALSE, {})

DirectUpdateWith ==
    \E context \in DirectData :
        /\ CanCall
        /\ req' = Request("directUpdateWith", "update", IdOf(state), Undef,
                          directQuery(context), "", FALSE)
        /\ res' = Pending("directUpdateWith")
        /\ UNCHANGED <<state, persisted, shared>>
        /\ Called
        /\ Frame

Reload ==
    /\ CanCall
    /\ IF isNew
       THEN req' = Idle /\ res' = PromiseOnly("reload", "resolved", "none", "", 0, "new")
       ELSE /\ req' = Request("reload", "find", IdOf(persisted), Undef, NoQuery, "", FALSE)
            /\ res' = Pending("reload")
    /\ UNCHANGED <<state, persisted, shared>>
    /\ Called
    /\ Frame

Destroy ==
    /\ CanCall
    /\ IF isNew
       THEN req' = Idle /\ res' = Both("destroy", "resolved", "none", "", 0, "new")
       ELSE IF IdOf(persisted) = 0
       THEN req' = Idle
            /\ res' = Both("destroy", "rejected", "valueError", "has no id!", 0, "noid")
       ELSE /\ req' = Request("destroy", "remove", IdOf(persisted), Undef, NoQuery, "", FALSE)
            /\ res' = Pending("destroy")
    /\ UNCHANGED <<state, persisted, shared>>
    /\ Called
    /\ Frame

-----------------------------------------------------------------------------
(* Persistence: the store answers *)

\* variant of failed: the error is handed on as a plain Error
failedUntyped(op, err, msg, branch, callsBack) ==
    IF callsBack THEN Both(op, "rejected", "Error", msg, 0, branch)
    ELSE PromiseOnly(op, "rejected", "Error", msg, 0, branch)

\* a failure after the request was issued; save alone has a path on which it
\* rejects without calling back (the catch of its reload)
failed(op, err, msg, branch, callsBack) ==
    IF callsBack THEN Both(op, "rejected", err, msg, 0, branch)
    ELSE PromiseOnly(op, "rejected", err, msg, 0, branch)

InsertOutcomes == {"ok", "err", "null", "empty"}

\* the _id of the inserted document: its own, or the next the store assigns
insertId(doc) == IF IdOf(doc) = 0 THEN nextId ELSE IdOf(doc)

\* the callback of insertRecord in save
RespondInsert ==
    \E outcome \in InsertOutcomes :
        /\ req.stage = "insert"
        /\ IF outcome = "ok"
           THEN \* the store assigns an _id to a document that has none, and
                \* refuses a document with the _id of a stored one
                /\ insertId(req.doc) <= MaxId
                /\ db[insertId(req.doc)] = NoDoc
                /\ LET stored == Put(req.doc, "_id", OidV(insertId(req.doc)))
                   IN /\ db' = [db EXCEPT ![insertId(req.doc)] = stored]
                      /\ Adopt(adoptStored(Cur, stored))
                      /\ wlog' = [kind |-> "insert", before |-> NoDoc, after |-> stored,
                                  as |-> req.as, clean |-> req.clean]
                /\ nextId' = IF IdOf(req.doc) = 0 THEN nextId + 1 ELSE nextId
                /\ life' = "saved"
                /\ installed' = persisted'
                /\ res' = [Both(req.op, "resolved", "none", "", insertId(req.doc),
                                "insert")
                              EXCEPT !.store = outcome]
           ELSE /\ res' = [IF outcome = "empty"
                           THEN Both(req.op, "rejected", "none", "", 0, "insert")
                           ELSE Both(req.op, "rejected", "persistenceError", outcome, 0,
                                     "insert")
                              EXCEPT !.store = outcome]
                /\ UNCHANGED <<state, persisted, shared, db, nextId, wlog, life,
                               installed>>
        /\ req' = Idle
        /\ UNCHANGED <<WRITABLE_PROPERTIES, READABLE_PROPERTIES, queryset, memoized, origin, now, found, nops>>

\* the callback of updateRecord in save and in directUpdateWith
RespondUpdate ==
    \E outcome \in {"ok", "err"} :
        /\ req.stage = "update"
        /\ LET doc == IF req.id \in DocIds THEN db[req.id] ELSE NoDoc
               new == IF doc = NoDoc THEN MErr ELSE applyUpdate(doc, req.q)
           IN IF outcome = "err" \/ new = MErr
              THEN /\ res' = [failed(req.op, "persistenceError",
                                     IF outcome = "err" \/ doc # NoDoc THEN "err"
                                     ELSE "0 records updated!", "update", TRUE)
                              EXCEPT !.store = IF outcome = "err" \/ doc # NoDoc
                                               THEN "err" ELSE "zero"]
                   /\ req' = Idle
                   /\ UNCHANGED <<db, wlog>>
              ELSE /\ db' = [db EXCEPT ![req.id] = new]
                   /\ wlog' = [kind |-> "update", before |-> doc, after |-> new,
                               as |-> req.as, clean |-> req.clean]
                   /\ IF isNew   \* this.reload() resolves at once
                      THEN /\ req' = Idle
                           /\ res' = [Both(req.op, "resolved", "none", "",
                                           IdOf(state), "update")
                                         EXCEPT !.store = "ok"]
                      ELSE /\ req' = [req EXCEPT !.stage = "find", !.id = IdOf(persisted)]
                           /\ res' = res
        /\ UNCHANGED <<WRITABLE_PROPERTIES, READABLE_PROPERTIES, queryset, memoized, origin, state, persisted, shared, nextId, now,
                       found, nops, life, installed>>

\* the answer to the Klass.get(original._id) of reload
RespondFind ==
    \E outcome \in {"ok", "err"} :
        /\ req.stage = "find"
        /\ LET g == getOutcome(db, [by |-> "id", n |-> req.id, s |-> ""])
               callsBack == req.op # "save"
           IN IF outcome = "err"
              THEN /\ res' = [failed(req.op, "driverError", "err", "reload", callsBack)
                              EXCEPT !.store = "err"]
                   /\ UNCHANGED <<state, persisted, shared, installed>>
              ELSE IF g.status = "rejected"
              THEN /\ res' = [failed(req.op, g.err, "", "reload", callsBack)
                              EXCEPT !.store = "many"]
                   /\ UNCHANGED <<state, persisted, shared, installed>>
              ELSE IF g.doc = Undef   \* instance.get() of undefined
              THEN /\ res' = [failed(req.op, "TypeError", "", "reload", callsBack)
                              EXCEPT !.store = "gone"]
                   /\ UNCHANGED <<state, persisted, shared, installed>>
              ELSE /\ Adopt(adoptStored(Cur, g.doc))
                   /\ installed' = persisted'
                   /\ res' = [Both(req.op, "resolved", "none", "",
                                   IF req.op = "reload" THEN 0 ELSE IdOf(g.doc),
                                   IF req.op = "reload" THEN "reload" ELSE "update")
                              EXCEPT !.store = "ok"]
        /\ req' = Idle
        /\ UNCHANGED <<WRITABLE_PROPERTIES, READABLE_PROPERTIES, queryset, memoized, origin, db, nextId, now, wlog, found, nops, life>>

\* variant of afterRemove: a successful delete empties the instance
afterRemoveWiped(i, outcome) ==
    IF outcome = "ok" THEN Inst(EmptyObj, NoState, {}) ELSE i

\* the instance once the callback of deleteRecord has run: the callback settles
\* the promise and calls done, and assigns nothing
afterRemove(i, outcome) == i

\* the callback of deleteRecord in destroy
RespondRemove ==
    \E outcome \in {"ok", "err"} :
        /\ req.stage = "remove"
        /\ IF outcome = "ok"
           THEN /\ db' = [db EXCEPT ![req.id] = NoDoc]
                /\ life' = "destroyed"
                /\ res' = [Both(req.op, "resolved", "none", "", 0, "remove")
                              EXCEPT !.store = "ok"]
           ELSE /\ db' = db
                /\ life' = life
                /\ res' = [Both(req.op, "rejected", "persistenceError", "err", 0,
                                    "remove") EXCEPT !.store = "err"]
        /\ Adopt(afterRemove(Cur, outcome))
        /\ req' = Idle
        /\ UNCHANGED <<WRITABLE_PROPERTIES, READABLE_PROPERTIES, queryset, memoized, origin, nextId, now, wlog, found, nops, installed>>

-----------------------------------------------------------------------------
(* Class-level finders *)

Get ==
    \E crit \in Criteria :
        /\ CanCall
        /\ LET g == getOutcome(db, crit)
           IN found' = [kind |-> "get", crit |-> crit, status |-> g.status,
                        err |-> g.err, doc |-> g.doc, all |-> {}]
        /\ nops' = nops + 1
        /\ wlog' = NoWrite
        /\ res' = NoRes
        /\ UNCHANGED <<WRITABLE_PROPERTIES, READABLE_PROPERTIES, queryset, memoized, origin, state, persisted, shared, db, nextId, now,
                       req, life, installed>>

Find ==
    \E crit \in Criteria :
        /\ CanCall
        /\ found' = [kind |-> "find", crit |-> crit, status |-> "resolved",
                     err |-> "none", doc |-> Undef, all |-> findOutcome(db, crit)]
        /\ nops' = nops + 1
        /\ wlog' = NoWrite
        /\ res' = NoRes
        /\ UNCHANGED <<WRITABLE_PROPERTIES, READABLE_PROPERTIES, queryset, memoized, origin, state, persisted, shared, db, nextId, now,
                       req, life, installed>>

-----------------------------------------------------------------------------

Next ==
    \/ Tick
    \/ Set \/ Unset \/ Push \/ Unshift \/ Splice \/ Reset \/ ResetAll \/ Clean
    \/ Save \/ UpdateWith \/ DirectUpdateWith \/ Reload \/ Destroy
    \/ RespondInsert \/ RespondUpdate \/ RespondFind \/ RespondRemove
    \/ Get \/ Find

Spec == Init /\ [][Next]_vars

\* sanity: an aliased path holds equal containers on both sides
SharedOK ==
    \A sp \in shared : /\ IsContainer(deepFetch(state, sp))
                       /\ deepFetch(state, sp) = deepFetch(persisted, sp)

-----------------------------------------------------------------------------
(* Properties *)

\* the leaf paths of a stored document
Leaves(doc) ==
    IF doc = NoDoc THEN {}
    ELSE {flatten(doc, <<>>)[j] : j \in 1..Len(flatten(doc, <<>>))}

\* keys the store and save itself write: the identifier and the two stamps
SystemKeys == {"_id", "updated_at", "created_at"}

\* the leaf paths of the last write that the client's mutators can have changed
ClientPaths == {p \in Leaves(wlog.before) \cup Leaves(wlog.after) : p[1] \notin SystemKeys}

\* a write made by save or updateWith with cleaning enabled
CleanWrite == wlog.kind # "none" /\ wlog.clean

\* C1: context containment - a save or updateWith that cleans never changes in
\* storage a path its context cannot write: every such path keeps the value the
\* stored document had before the write, or stays absent
C1_ContextContainment ==
    CleanWrite =>
        \A p \in ClientPaths :
            ~canWrite(WRITABLE_PROPERTIES, p, wlog.as)
                => deepFetch(wlog.after, p) = deepFetch(Persisted(IF wlog.before = NoDoc
                                                                   THEN NoState
                                                                   ELSE wlog.before), p)

\* C2: the persisted snapshot is only ever what hydrate, save or reload last
\* installed: no set, unset, push, unshift, splice, reset or clean changes it
C2_PersistedUntouched == persisted = installed

\* the last call was a save that resolved
SaveResolved == res.op = "save" /\ res.promise = "resolved"

\* what a reload issued now would install as working state and snapshot
Reloaded ==
    LET g == getOutcome(db, [by |-> "id", n |-> IdOf(Persisted(persisted)), s |-> ""])
    IN IF g.status = "resolved" /\ g.doc # Undef THEN JSONCopy(g.doc) ELSE NoDoc

\* the round trip is closed: working state, snapshot and the stored document
\* as reload rehydrates it are all equal, and nothing is dirty
RoundTripClosed ==
    /\ state = persisted
    /\ ~isDirty(Cur)
    /\ dirtyFields(Cur) = <<>>
    /\ Reloaded = state

Stamped == set(Cur, <<"updated_at">>, DateV(now))

\* C4: patch correctness - for a saved instance the patch save builds exists
\* exactly when the stamped working state differs from the snapshot, and applied
\* to a stored document equal to the snapshot it yields that working state
C4_PatchCorrect ==
    ~isNew =>
        LET q == getUpdateQuery(Stamped)
        IN /\ q.kind # "throw"
           /\ (q.kind = "none") <=> (Stamped.w = Stamped.p)
           /\ q.kind = "query" => applyUpdate(Stamped.p, q) = Stamped.w

\* the last call has settled: its promise resolved or rejected
Settled == res.promise \in {"resolved", "rejected"}

\* C5: lifecycle - isNew() holds exactly until the first successful save, and
\* once destroy has succeeded every save or updateWith that passes validation
\* and reaches a store that answers rejects with the persistenceError
\* '0 records updated!' and writes nothing
C5_Lifecycle ==
    /\ isNew <=> life = "new"
    /\ (/\ life = "destroyed"
        /\ res.op \in {"save", "updateWith"}
        /\ res.promise \in {"resolved", "rejected", "threw"}
        /\ res.invalid = {}
        /\ res.store # "err")
           => /\ res.promise = "rejected"
              /\ res.err = "persistenceError"
              /\ res.msg = "0 records updated!"
              /\ wlog.kind = "none"

\* the documents a finder's criteria match, as the caller receives them
Matching == {JSONCopy(db[i]) : i \in Matches(db, found.crit)}

\* C6: single-result finder - get resolves with the one matching document
\* hydrated, resolves undefined when none matches, and rejects with a
\* resultError and no instance when several match; find yields every match
C6_SingleResult ==
    /\ found.kind = "get" =>
          CASE Cardinality(Matching) = 0 ->
                  found.status = "resolved" /\ found.doc = Undef
            [] Cardinality(Matching) = 1 ->
                  found.status = "resolved" /\ found.doc \in Matching
            [] OTHER ->
                  /\ found.status = "rejected"
                  /\ found.err = "resultError"
                  /\ found.doc = Undef
    /\ found.kind = "find" => found.all = Matching

\* get met two matching documents and rejected
C6_Witness ==
    /\ found.kind = "get"
    /\ Cardinality(Matching) = 2
    /\ found.status = "rejected"

\* C7: validation failure - a save whose validate() reports failures rejects
\* with a validationError carrying that list, issues no storage request and
\* leaves the working state, the snapshot and the store as they were
C7_ValidationFailure ==
    [][(nops' = nops + 1 /\ res'.op = "save" /\ res'.invalid # {})
          => /\ res'.promise = "rejected"
             /\ res'.err = "validationError"
             /\ res'.fields = res'.invalid
             /\ res'.cerr = "validationError"
             /\ req' = Idle
             /\ state' = state
             /\ persisted' = persisted
             /\ db' = db]_vars

\* a save of a dirty instance was rejected for its validation failures
C7_Witness ==
    /\ res.op = "save"
    /\ res.invalid # {}
    /\ res.promise = "rejected"
    /\ isDirty(Cur)

\* the asynchronous instance operations
AsyncOps == {"save", "reload", "destroy", "updateWith", "directUpdateWith"}

\* C8: dual channel - whenever one of the asynchronous operations has settled
\* its promise, its callback has been called exactly once, with an error
\* exactly when the promise is rejected, and with the same error or value
C8_DualChannel ==
    (res.op \in AsyncOps /\ Settled)
        => /\ res.cb = 1
           /\ res.cstat = (IF res.promise = "resolved" THEN "ok" ELSE "err")
           /\ res.cerr = res.err
           /\ res.cval = res.val

\* C9: typed persistence failures - when the insert returns no document, the
\* update matches no row, or the store reports an error to save or destroy, the
\* operation rejects with a persistenceError and the step that brings the
\* failure replaces neither the working state nor the snapshot
C9_TypedFailures ==
    [][(res'.op \in {"save", "destroy"} /\ res' # res /\ res'.store \in
            {"err", "null", "empty", "zero"})
          => /\ res'.promise = "rejected"
             /\ res'.err = "persistenceError"
             /\ state' = state
             /\ persisted' = persisted]_vars

\* C10: clean is idempotent - right after clean(ctx) returned, a second
\* clean(ctx) changes nothing in the working state
C10_CleanIdempotent ==
    (res.op = "clean" /\ res.promise = "none")
        => clean(Cur, WRITABLE_PROPERTIES, res.as).w = state

-----------------------------------------------------------------------------
(* Path addressing on its own: single get and set calls on a new instance,   *)
(* over working states that hold strings, the empty string, nested objects   *)
(* and an array.                                                             *)

PathStates ==
    {EmptyObj,
     Obj([k \in {"a", "c"} |-> sx]),
     Obj([k \in {"a", "c"} |-> IF k = "a" THEN Str("") ELSE sx]),
     Obj([k \in {"a", "c"} |-> IF k = "a" THEN Obj([j \in {"b"} |-> sx]) ELSE sy]),
     Obj([k \in {"l"} |-> ArrOf(<<sx, sy>>)])}
PathInputs == {<<"a">>, <<"a", "b">>, <<"a", "b", "c">>, <<"b", "c">>, <<"l", "0">>}
PathValues == {sy, Obj([k \in {"c"} |-> sx])}
Defaults == {Undef, Str("d")}

\* a path argument that is not a string: no split of a string has no segment
NonString == <<>>
ArrayInputs == {<<"l">>, <<"a">>, <<"a", "b">>, <<"b", "c">>}
\* unset is given object keys only: the hole that deleting an array element
\* leaves is not a value of the model
UnsetPathInputs == {<<"a">>, <<"a", "b">>, <<"a", "b", "c">>, <<"b", "c">>}

NoCall == [kind |-> "none", path |-> <<>>, arg |-> Undef, before |-> Undef,
           val |-> Undef, threw |-> FALSE, err |-> "none"]

\* the error a call of set or unset ends with: the argumentError of its own
\* check, the TypeError of the assignment, or none
pathError(i2, property) ==
    IF property = NonString THEN "argumentError"
    ELSE IF i2.ex THEN "TypeError" ELSE "none"

\* the error a call of push or unshift ends with
insertError(i, property) ==
    LET fresh == RefValue(i.w, property) \in {Throw, Undef}
        w1 == IF fresh THEN SetIn(i.w, property, ArrOf(<<>>)) ELSE i.w
    IN IF w1 = Throw THEN "TypeError"
       ELSE IF RefValue(w1, property).t # "a" THEN "attributeError"
       ELSE "none"

\* the error a call of splice ends with
spliceError(i, property) ==
    IF RefValue(i.w, property) = Throw THEN "TypeError"
    ELSE IF RefValue(i.w, property).t # "a" THEN "attributeError"
    ELSE "none"

PathInit ==
    /\ WRITABLE_PROPERTIES = NoRegistry
    /\ READABLE_PROPERTIES = NoRegistry
    /\ queryset = NoQuerySet
    /\ memoized = NoMemo
    /\ origin = NoOrigin
    /\ db = [i \in DocIds |-> NoDoc]
    /\ nextId = 1
    /\ \E properties \in PathStates : state = JSONCopy(properties)
    /\ persisted = NoState
    /\ life = "new"
    /\ installed = persisted
    /\ shared = {}
    /\ now = 0
    /\ req = Idle
    /\ res = NoRes
    /\ wlog = NoWrite
    /\ found = NoCall
    /\ nops = 0

\* instance.get(path, def)
GetPath ==
    \E path \in PathInputs, def \in Defaults :
        /\ nops < MaxOps
        /\ found' = [kind |-> "get", path |-> path, arg |-> def, before |-> state,
                     val |-> getOr(Cur, path, def), threw |-> FALSE, err |-> "none"]
        /\ nops' = nops + 1
        /\ UNCHANGED <<WRITABLE_PROPERTIES, READABLE_PROPERTIES, queryset, memoized, origin, state, persisted, shared, db, nextId, now,
                       req, res, wlog, life, installed>>

\* what a set call leaves: the instance, and whether the call threw
setPath(i, path, value) ==
    IF path = NonString THEN [inst |-> i, threw |-> TRUE]
    ELSE [inst |-> [set(i, path, value) EXCEPT !.ex = FALSE],
          threw |-> set(i, path, value).ex]

\* what an unset call leaves
unsetPath(i, path) ==
    IF path = NonString THEN [inst |-> i, threw |-> TRUE]
    ELSE [inst |-> [unset(i, path) EXCEPT !.ex = FALSE], threw |-> unset(i, path).ex]

\* a mutator call returns or throws: the instance it leaves and what is
\* recorded of the call
Returned(kind, path, value, i2, threw, err) ==
    /\ Adopt([i2 EXCEPT !.ex = FALSE])
    /\ found' = [kind |-> kind, path |-> path, arg |-> value, before |-> state,
                 val |-> value, threw |-> threw, err |-> err]
    /\ nops' = nops + 1
    /\ UNCHANGED <<WRITABLE_PROPERTIES, READABLE_PROPERTIES, queryset, memoized, origin, db, nextId, now, req, res, wlog, life,
                   installed>>

\* instance.set(path, value)
SetPath ==
    \E path \in PathInputs \cup {NonString}, value \in PathValues :
        /\ nops < MaxOps
        /\ Returned("set", path, value, setPath(Cur, path, value).inst,
                    setPath(Cur, path, value).threw,
                    pathError([ex |-> setPath(Cur, path, value).threw], path))

\* instance.unset(path)
UnsetPath ==
    \E path \in UnsetPathInputs \cup {NonString} :
        /\ nops < MaxOps
        /\ Returned("unset", path, Undef, unsetPath(Cur, path).inst,
                    unsetPath(Cur, path).threw,
                    pathError([ex |-> unsetPath(Cur, path).threw], path))

\* instance.push(path, value) and instance.unshift(path, value)
InsertPath ==
    \E path \in ArrayInputs, atEnd \in BOOLEAN :
        /\ nops < MaxOps
        /\ ArrLen(deepFetch(state, path)) < MaxLen
        /\ Returned(IF atEnd THEN "push" ELSE "unshift", path, sy,
                    insertInArray(Cur, path, sy, atEnd),
                    insertInArray(Cur, path, sy, atEnd).ex, insertError(Cur, path))

\* instance.splice(path, 0, 1)
SplicePath ==
    \E path \in ArrayInputs :
        /\ nops < MaxOps
        /\ Returned("splice", path, Undef, splice(Cur, path, 0, 1),
                    splice(Cur, path, 0, 1).ex, spliceError(Cur, path))

PathNext == GetPath \/ SetPath \/ UnsetPath \/ InsertPath \/ SplicePath

PathSpec == PathInit /\ [][PathNext]_vars

-----------------------------------------------------------------------------
(* Dirty fields *)

\* every path of a value, the root excepted when prefix is empty
RECURSIVE PathsOf(_, _)
PathsOf(v, prefix) ==
    (IF prefix = <<>> THEN {} ELSE {prefix})
        \cup (IF IsContainer(v)
              THEN UNION {PathsOf(v.kv[k], prefix \o <<k>>) : k \in DOMAIN v.kv}
              ELSE {})

\* the paths either side of the instance holds
InstancePaths == PathsOf(state, <<>>) \cup PathsOf(Persisted(persisted), <<>>)

\* a dirty field: the working value differs from the persisted value
Differs(p) == deepFetch(state, p) # deepFetch(Persisted(persisted), p)

DirtySet == {dirtyFields(Cur)[j] : j \in 1..Len(dirtyFields(Cur))}

\* C11: dirtyFields() is exact - every path whose working value differs from
\* its persisted value is a returned path or lies under one, every returned
\* path has differing values, and a changed object is reported by its leaves,
\* never by a path that holds a non-empty object in the working state
C11_DirtyExact ==
    /\ \A p \in InstancePaths : Differs(p) => \E d \in DirtySet : IsPrefix(d, p)
    /\ \A d \in DirtySet : Differs(d)
    /\ \A d \in DirtySet : ~(deepFetch(state, d).t = "o" /\ HasOwnKeys(deepFetch(state, d)))

\* the paths at which both sides hold an array
ArraysOnBothSides ==
    {p \in InstancePaths : /\ deepFetch(state, p).t = "a"
                           /\ deepFetch(Persisted(persisted), p).t = "a"}

\* C12: array collapse - an array whose length differs between the snapshot
\* and the working state is reported by its base path and by no path under
\* it; an element changed in an array of unchanged length is reported by its
\* indexed path
C12_ArrayCollapse ==
    \A p \in ArraysOnBothSides :
        IF ArrLen(deepFetch(state, p)) # ArrLen(deepFetch(Persisted(persisted), p))
        THEN /\ p \in DirtySet
             /\ ~(\E d \in DirtySet : IsStrictPrefix(p, d))
        ELSE \A k \in DOMAIN deepFetch(state, p).kv :
                (~IsContainer(deepFetch(state, p \o <<k>>)) /\ Differs(p \o <<k>>))
                    => (p \o <<k>>) \in DirtySet

-----------------------------------------------------------------------------
(* destroy *)

\* C13: after a successful destroy of a persisted instance the persisted
\* snapshot is cleared
C13_DestroyClears ==
    (res.op = "destroy" /\ res.promise = "resolved" /\ res.branch = "remove")
        => persisted = NoState

-----------------------------------------------------------------------------
(* updateWith *)

\* the dot paths of a partial object
MergePaths(data) == {flatten(data, <<>>)[j] : j \in 1..Len(flatten(data, <<>>))}

\* p is neither one of the paths ps nor a prefix or an extension of one
Unrelated(p, ps) == \A q \in ps : ~IsPrefix(p, q) /\ ~IsPrefix(q, p)

\* the working state updateWith hands to save
Merged(data) == setAll(Cur, data, flatten(data, <<>>)).w

\* C15: updateWith merges - ahead of its save step every path of the flattened
\* partial object holds the supplied value and every unrelated path holds the
\* working value it had; and the update a successful updateWith sends leaves in
\* storage every unrelated field that the client had not touched
C15_Merge ==
    [][/\ (nops' = nops + 1 /\ res'.op = "updateWith")
            => \A data \in UpdateData :
                  /\ \A q \in MergePaths(data) :
                        deepFetch(Merged(data), q) = deepFetch(data, q)
                  /\ \A p \in PathsOf(state, <<>>) :
                        Unrelated(p, MergePaths(data))
                            => deepFetch(Merged(data), p) = deepFetch(state, p)
       /\ (req.op = "updateWith" /\ wlog'.kind = "update")
            => \A data \in UpdateData :
                  \A p \in PathsOf(wlog'.before, <<>>) :
                      (/\ Unrelated(p, MergePaths(data))
                       /\ p[1] \notin SystemKeys
                       /\ deepFetch(state, p) = deepFetch(persisted, p))
                          => deepFetch(wlog'.after, p) = deepFetch(wlog'.before, p)]_vars

-----------------------------------------------------------------------------
(* directUpdateWith *)

\* the stored document an identifier names, as reload rehydrates it
StoredAs(store, id) == IF id \in DocIds THEN JSONCopy(store[id]) ELSE NoDoc

\* C16: directUpdateWith bypasses the save pipeline - the call leaves the
\* instance as it is (no clean, no stamp), is not stopped by validation, sends
\* the caller's fields alone (no updated_at), the update leaves the stored
\* updated_at alone, and once it has resolved the working state and the
\* snapshot both equal the stored document
C16_DirectBypass ==
    [][/\ (nops' = nops + 1 /\ res'.op = "directUpdateWith")
            => /\ state' = state /\ persisted' = persisted
               /\ res'.promise = "pending"
               /\ req'.q \in {directQuery(context) : context \in DirectData}
               /\ <<"updated_at">> \notin DOMAIN req'.q.set
       /\ (req.op = "directUpdateWith" /\ wlog'.kind = "update")
            => Prop(wlog'.after, "updated_at") = Prop(wlog'.before, "updated_at")
       /\ (req.op = "directUpdateWith" /\ res'.promise = "resolved")
            => /\ state' = persisted'
               /\ state' = StoredAs(db', IdOf(state'))]_vars

\* the update of a directUpdateWith is about to be answered, and its identifier
\* names no stored document
DirectUpdateUnmatched ==
    /\ req.op = "directUpdateWith"
    /\ req.stage = "update"
    /\ StoredAs(db, req.id) = NoDoc

\* C17: directUpdateWith on an instance whose identifier matches no stored
\* document rejects with a persistenceError, starts no reload, and leaves the
\* working state, the snapshot and the store as they were
C17_DirectUnmatched ==
    [][DirectUpdateUnmatched
          => /\ res'.promise = "rejected"
             /\ res'.err = "persistenceError"
             /\ res'.cerr = "persistenceError"
             /\ req' = Idle
             /\ state' = state
             /\ persisted' = persisted
             /\ db' = db]_vars

\* a directUpdateWith on a destroyed instance was rejected: no record updated
C17_Witness ==
    /\ res.op = "directUpdateWith"
    /\ res.promise = "rejected"
    /\ res.store = "zero"
    /\ life = "destroyed"

-----------------------------------------------------------------------------
(* reload *)

\* C18: reload - on a never-saved instance the call resolves with no storage
\* request and changes nothing; on a persisted instance the call changes
\* nothing, and when the store answers, either the document exists and both
\* the working state and the snapshot become the stored document, or it does
\* not and the reload is rejected, the callback gets the error, and both
\* states stay as they were
C18_Reload ==
    [][/\ (nops' = nops + 1 /\ res'.op = "reload")
            => /\ state' = state /\ persisted' = persisted /\ db' = db
               /\ isNew => (res'.promise = "resolved" /\ req' = Idle)
       /\ (req.op = "reload" /\ req.stage = "find" /\ res'.store # "err")
            => IF StoredAs(db, req.id) # NoDoc
               THEN /\ res'.promise = "resolved"
                    /\ state' = StoredAs(db, req.id)
                    /\ persisted' = StoredAs(db, req.id)
               ELSE /\ res'.promise = "rejected"
                    /\ res'.cb = 1 /\ res'.cstat = "err"
                    /\ state' = state /\ persisted' = persisted]_vars

\* a reload, the second call made on the instance, installed the stored document
C18_Witness ==
    /\ res.op = "reload"
    /\ res.promise = "resolved"
    /\ res.branch = "reload"
    /\ nops = 2
    /\ state = StoredAs(db, IdOf(persisted))

-----------------------------------------------------------------------------
(* Path addressing: properties of PathSpec *)

\* the value stored at a path, every segment resolved as JavaScript resolves a
\* property; undefined when a segment is missing
RECURSIVE Stored(_, _)
Stored(v, path) ==
    IF path = <<>> \/ v.t = "u" THEN v
    ELSE Stored(Prop(v, Head(path)), Tail(path))

\* C19: get(path, def) never throws, returns def whenever the addressed slot
\* does not exist, and returns the value stored at the path otherwise
C19_GetTotal ==
    found.kind = "get"
        => /\ ~found.threw
           /\ found.val = IF Stored(found.before, found.path).t = "u"
                          THEN found.arg
                          ELSE Stored(found.before, found.path)

\* the proper, non-empty prefixes of a path
Intermediates(path) == {SubSeq(path, 1, n) : n \in 1..(Len(path) - 1)}

\* C20: set/get round trip - after set(p, v), get(p) returns v, every
\* intermediate segment that was missing is an object, and every path that is
\* neither a prefix nor an extension of p reads as before
C20_SetGet ==
    (found.kind = "set" /\ found.path # NonString)
        => /\ ~found.threw
           /\ get(Cur, found.path) = found.arg
           /\ \A q \in Intermediates(found.path) :
                 Stored(found.before, q).t = "u" => Stored(state, q).t = "o"
           /\ \A q \in PathsOf(found.before, <<>>) :
                 Unrelated(q, {found.path}) => Stored(state, q) = Stored(found.before, q)

\* C21: invalid mutator calls - set and unset given a path that is no string
\* throw an argumentError; push and unshift at a path that holds a defined
\* value other than an array, and splice at a path that holds no array, throw
\* an attributeError; none of them changes the working state
C21_InvalidCalls ==
    /\ (found.kind \in {"set", "unset"} /\ found.path = NonString)
          => (found.threw /\ found.err = "argumentError" /\ state = found.before)
    /\ (/\ found.kind \in {"push", "unshift"}
        /\ Stored(found.before, found.path).t \notin {"u", "a"})
          => (found.threw /\ found.err = "attributeError" /\ state = found.before)
    /\ (found.kind = "splice" /\ Stored(found.before, found.path).t # "a")
          => (found.threw /\ found.err = "attributeError" /\ state = found.before)

-----------------------------------------------------------------------------
(* Access contexts: the class-level declarations and the calls they govern *)

\* JSON.parse(JSON.stringify(x)) without a reviver: dates and ObjectIds stay
\* the strings that toJSON made of them
RECURSIVE stringify(_)
stringify(v) ==
    CASE v.t = "d" -> DateStr(v.n)
      [] v.t = "id" -> OidStr(v.n)
      [] v.t = "o" ->
            Obj([k \in {x \in DOMAIN v.kv : v.kv[x].t # "u"} |-> stringify(v.kv[k])])
      [] v.t = "a" -> Arr([k \in DOMAIN v.kv |-> stringify(v.kv[k])])
      [] OTHER -> v

\* a list that keeps every element it is given
Bag(list) == list

\* new MySet(list).toArray(): the first occurrence of each element, in order
RECURSIVE MySet(_)
MySet(list) ==
    IF list = <<>> THEN <<>>
    ELSE LET front == MySet(Front(list))
             last == list[Len(list)]
         IN IF \E j \in 1..Len(front) : front[j] = last THEN front
            ELSE Append(front, last)

\* the context a declaration targets; "" stands for an omitted context
declared(context) == IF context = "" THEN "default" ELSE context

\* refArr[0][refArr[1]] = list, with getPathReferenceArray(..., {create: true})
declare(reg, context, list) ==
    [c \in DOMAIN reg \cup {context} |-> IF c = context THEN list ELSE reg[c]]

\* what a context holds, [] when it holds nothing yet
declaredIn(reg, context) == IF context \in DOMAIN reg THEN reg[context] ELSE <<>>

\* Klass.readable(context, properties)
readable(reg, context, properties) ==
    declare(reg, declared(context),
            MySet(MySet(declaredIn(reg, declared(context)) \o properties)
                      \o <<(<<"_id">>)>>))

\* Klass.writable(context, properties)
writable(reg, context, properties) ==
    declare(reg, declared(context),
            MySet(declaredIn(reg, declared(context)) \o properties))

\* the reduce of format over the readable properties
RECURSIVE formatProps(_, _, _)
formatProps(out, source, props) ==
    IF props = <<>> THEN out
    ELSE LET value == deepFetch(source, Head(props))
         IN formatProps(IF value.t = "u" THEN out ELSE SetIn(out, Head(props), value),
                        source, Tail(props))

\* Klass.prototype.format({as: as}); "" stands for an omitted `as`. The
\* declared paths of the model hold no '.$.' iterator.
format(reg, w, as) ==
    LET source == stringify(w)
        observationContext == IF as \notin DOMAIN reg /\ as # "_all" THEN "default" ELSE as
    IN IF DOMAIN reg = {} THEN source
       ELSE IF observationContext \notin DOMAIN reg THEN source
       ELSE JSONCopy(formatProps(EmptyObj, source, reg[observationContext]))

\* the snapshot of the instance the calls are made on, and its working states
CtxPersisted ==
    Obj([k \in {"_id", "a", "c"} |->
            CASE k = "_id" -> OidV(1)
              [] k = "a" -> Obj([j \in {"b", "c"} |-> sx])
              [] OTHER -> sx])
CtxStates ==
    {CtxPersisted,
     SetIn(CtxPersisted, <<"a", "b">>, sy),
     SetIn(CtxPersisted, <<"c">>, sy),
     SetIn(CtxPersisted, <<"b">>, sy),
     SetIn(SetIn(CtxPersisted, <<"a", "c">>, sy), <<"c">>, sy)}

DeclContexts == {"", "priv"}
PropertyLists ==
    {<<(<<"a", "c">>)>>,
     <<(<<"a">>), <<"c">>>>,
     <<(<<"c">>), <<"a", "b">>, <<"c">>>>}
AsOptions == {"", "priv", "guest", "_all"}
CanWritePaths == {<<"a">>, <<"a", "b">>, <<"a", "c">>, <<"ab">>, <<"b">>, <<"c">>}

\* the class starts with no registry and the calls below declare them
DeclInit ==
    /\ WRITABLE_PROPERTIES = NoRegistry
    /\ READABLE_PROPERTIES = NoRegistry
    /\ queryset = NoQuerySet
    /\ memoized = NoMemo
    /\ origin = NoOrigin
    /\ db = [i \in DocIds |-> NoDoc]
    /\ nextId = 1
    /\ state = CtxPersisted
    /\ persisted = CtxPersisted
    /\ life = "hydrated"
    /\ installed = persisted
    /\ shared = {}
    /\ now = 0
    /\ req = Idle
    /\ res = NoRes
    /\ wlog = NoWrite
    /\ found = NoCall
    /\ nops = 0

\* what is recorded of a class-level declaration
Declared(kind, context, properties) ==
    /\ nops < MaxOps
    /\ nops' = nops + 1
    /\ found' = [kind |-> kind, path |-> <<>>, arg |-> Str(context), before |-> state,
                 val |-> properties, threw |-> FALSE, err |-> "none"]
    /\ UNCHANGED <<queryset, memoized, origin, state, persisted, shared, db, nextId, now,
                   req, res, wlog, life, installed>>

\* Klass.readable(context, properties)
Readable ==
    \E context \in DeclContexts, properties \in PropertyLists :
        /\ READABLE_PROPERTIES' = readable(READABLE_PROPERTIES, context, properties)
        /\ UNCHANGED WRITABLE_PROPERTIES
        /\ Declared("readable", context, properties)

\* Klass.writable(context, properties)
Writable ==
    \E context \in DeclContexts, properties \in PropertyLists :
        /\ WRITABLE_PROPERTIES' = writable(WRITABLE_PROPERTIES, context, properties)
        /\ UNCHANGED READABLE_PROPERTIES
        /\ Declared("writable", context, properties)

\* Klass.accessible(context, properties)
Accessible ==
    \E context \in DeclContexts, properties \in PropertyLists :
        /\ READABLE_PROPERTIES' = readable(READABLE_PROPERTIES, context, properties)
        /\ WRITABLE_PROPERTIES' = writable(WRITABLE_PROPERTIES, context, properties)
        /\ Declared("accessible", context, properties)

DeclNext == Readable \/ Writable \/ Accessible

DeclSpec == DeclInit /\ [][DeclNext]_vars

\* the classes the instance calls are made on: one without declarations, and
\* those that one or two calls of accessible declare
Declarations ==
    {<<>>}
        \cup {<<[context |-> c, properties |-> l]>> : c \in DeclContexts, l \in PropertyLists}
        \cup {<<[context |-> "", properties |-> l1], [context |-> "priv", properties |-> l2]>> :
                  l1 \in PropertyLists, l2 \in PropertyLists}

RECURSIVE writableAll(_, _)
writableAll(reg, decls) ==
    IF decls = <<>> THEN reg
    ELSE writableAll(writable(reg, Head(decls).context, Head(decls).properties),
                     Tail(decls))

RECURSIVE readableAll(_, _)
readableAll(reg, decls) ==
    IF decls = <<>> THEN reg
    ELSE readableAll(readable(reg, Head(decls).context, Head(decls).properties),
                     Tail(decls))

CtxInit ==
    /\ \E decls \in Declarations :
           /\ WRITABLE_PROPERTIES = writableAll(NoRegistry, decls)
           /\ READABLE_PROPERTIES = readableAll(NoRegistry, decls)
    /\ queryset = NoQuerySet
    /\ memoized = NoMemo
    /\ origin = NoOrigin
    /\ db = [i \in DocIds |-> NoDoc]
    /\ nextId = 1
    /\ state \in CtxStates
    /\ persisted = CtxPersisted
    /\ life = "hydrated"
    /\ installed = persisted
    /\ shared = {}
    /\ now = 0
    /\ req = Idle
    /\ res = NoRes
    /\ wlog = NoWrite
    /\ found = NoCall
    /\ nops = 0

\* what is recorded of an instance call made under the declarations
Answered(kind, path, as, value, i2) ==
    /\ Adopt([i2 EXCEPT !.ex = FALSE])
    /\ found' = [kind |-> kind, path |-> path, arg |-> Str(as), before |-> state,
                 val |-> value, threw |-> i2.ex, err |-> "none"]
    /\ UNCHANGED <<WRITABLE_PROPERTIES, READABLE_PROPERTIES, queryset, memoized, origin, db, nextId, now, req, res, wlog, life,
                   installed, nops>>

\* instance.canWrite(path, {as: as})
CanWrite ==
    \E path \in CanWritePaths, as \in AsOptions :
        Answered("canWrite", path, as, canWrite(WRITABLE_PROPERTIES, path, as), Cur)

\* instance.clean({as: as})
CleanCall ==
    \E as \in AsOptions :
        Answered("clean", <<>>, as, Undef, clean(Cur, WRITABLE_PROPERTIES, as))

\* instance.format({as: as})
Format ==
    \E as \in AsOptions :
        Answered("format", <<>>, as, format(READABLE_PROPERTIES, state, as), Cur)

CtxNext == CanWrite \/ CleanCall \/ Format

CtxSpec == CtxInit /\ [][CtxNext]_vars

\* the entries of a context of a registry, none when it was never declared
Entries(reg, context) ==
    {declaredIn(reg, context)[j] : j \in 1..Len(declaredIn(reg, context))}

\* the context a call with option `as` is meant to resolve to
Resolved(reg, as) ==
    IF as = "_all" \/ DOMAIN reg = {} THEN "_all"
    ELSE IF as # "" /\ as \in DOMAIN reg THEN as
    ELSE "default"

\* a clean made with no usable context under a registry without a default
DefaultClosedClean ==
    /\ found.kind = "clean"
    /\ DOMAIN WRITABLE_PROPERTIES # {}
    /\ "default" \notin DOMAIN WRITABLE_PROPERTIES
    /\ found.arg.s \notin DOMAIN WRITABLE_PROPERTIES \cup {"_all"}

\* C22: writes are default-closed - under a writable registry that declares no
\* 'default' set, a clean with no context or an undeclared one rolls back every
\* dirty path, top-level or nested, and returns without throwing
C22_DefaultClosed ==
    DefaultClosedClean => (~found.threw /\ state = persisted)

\* a format made under a readable registry with a context other than '_all'
RestrictedFormat ==
    /\ found.kind = "format"
    /\ DOMAIN READABLE_PROPERTIES # {}
    /\ found.arg.s # "_all"

\* C23: reads are restricted - under a readable registry, format with a context
\* other than '_all' returns the working state's values at the paths of the
\* resolved context's readable set and no other key, also when no 'default'
\* set was declared, and leaves the working state as it was
C23_ReadRestricted ==
    RestrictedFormat =>
        LET listed == Entries(READABLE_PROPERTIES,
                              Resolved(READABLE_PROPERTIES, found.arg.s))
        IN /\ state = found.before
           /\ \A p \in PathsOf(found.val, <<>>) :
                  \E e \in listed : IsPrefix(e, p) \/ IsPrefix(p, e)
           /\ \A e \in listed : Stored(found.val, e) = Stored(state, e)

\* a list that holds no element twice
NoDuplicates(list) == \A j, k \in 1..Len(list) : list[j] = list[k] => j = k

\* the registry reg2 is reg after one declaration of properties, and of the
\* paths of extra, for the context `as`
DeclaredInto(reg, reg2, as, properties, extra) ==
    LET context == IF as = "" THEN "default" ELSE as
    IN /\ DOMAIN reg2 = DOMAIN reg \cup {context}
       /\ \A c \in DOMAIN reg \ {context} : reg2[c] = reg[c]
       /\ Entries(reg2, context)
              = Entries(reg, context) \cup {properties[j] : j \in 1..Len(properties)}
                    \cup extra
       /\ NoDuplicates(reg2[context])

\* C24: context declarations are cumulative, deduplicating and context-local -
\* a declaration adds its paths to what its context held, each path once, a
\* declaration without a context name targets 'default', no other context and
\* (accessible apart) no other registry changes, and every declared readable
\* set holds '_id'
C24_Declarations ==
    [][/\ found'.kind = "readable"
            => /\ DeclaredInto(READABLE_PROPERTIES, READABLE_PROPERTIES', found'.arg.s,
                               found'.val, {<<"_id">>})
               /\ WRITABLE_PROPERTIES' = WRITABLE_PROPERTIES
       /\ found'.kind = "writable"
            => /\ DeclaredInto(WRITABLE_PROPERTIES, WRITABLE_PROPERTIES', found'.arg.s,
                               found'.val, {})
               /\ READABLE_PROPERTIES' = READABLE_PROPERTIES
       /\ found'.kind = "accessible"
            => /\ DeclaredInto(READABLE_PROPERTIES, READABLE_PROPERTIES', found'.arg.s,
                               found'.val, {<<"_id">>})
               /\ DeclaredInto(WRITABLE_PROPERTIES, WRITABLE_PROPERTIES', found'.arg.s,
                               found'.val, {})
       /\ \A c \in DOMAIN READABLE_PROPERTIES' :
              <<"_id">> \in Entries(READABLE_PROPERTIES', c)]_vars

\* a declaration that repeats a path, made for one context while another holds
\* paths of its own
C24_Witness ==
    /\ found.kind = "accessible"
    /\ found.val = <<(<<"c">>), <<"a", "b">>, <<"c">>>>
    /\ found.arg.s = "priv"
    /\ WRITABLE_PROPERTIES = [c \in {"default", "priv"} |->
                                 IF c = "default" THEN <<(<<"a">>), <<"c">>>>
                                 ELSE <<(<<"c">>), <<"a", "b">>>>]
    /\ READABLE_PROPERTIES = [c \in {"priv"} |-> <<(<<"c">>), <<"a", "b">>, <<"_id">>>>]

-----------------------------------------------------------------------------
(* QuerySet.toArray: the cursor's records, the chain of promises that        *)
(* hydrates them (link[i] is the state of the i-th link), and the callback   *)

\* what the cursor yields: up to MaxLen stored documents, in the cursor's order
CursorDocs == {Doc1, Doc2(1), Doc2(2)}
CursorRecords == UNION {[1..n -> CursorDocs] : n \in 0..MaxLen}

\* variant of ready: every link runs as soon as the records are there
readyAtOnce(q, i) == TRUE

\* chain = chain.then(...): the i-th link runs once the promise of the link
\* before it has resolved
ready(q, i) == IF i = 1 THEN TRUE ELSE q.link[i - 1] = "done"

QueryInit ==
    /\ WRITABLE_PROPERTIES = NoRegistry
    /\ READABLE_PROPERTIES = NoRegistry
    /\ \E records \in CursorRecords, preloadList \in BOOLEAN :
           queryset = [NoQuerySet EXCEPT !.records = records, !.preloadList = preloadList]
    /\ memoized = NoMemo
    /\ origin = NoOrigin
    /\ db = [i \in DocIds |-> NoDoc]
    /\ nextId = 1
    /\ state = EmptyObj
    /\ persisted = NoState
    /\ life = "new"
    /\ installed = persisted
    /\ shared = {}
    /\ now = 0
    /\ req = Idle
    /\ res = NoRes
    /\ wlog = NoWrite
    /\ found = NoCall
    /\ nops = 0

\* the steps of toArray change the QuerySet's call and nothing else
QueryFrame ==
    UNCHANGED <<WRITABLE_PROPERTIES, READABLE_PROPERTIES, memoized, origin, state, persisted,
                shared, db, nextId, now, req, res, wlog, found, nops, life, installed>>

\* QuerySet.prototype.toArray: the callback of this._cursor.toArray
ToArray ==
    \E outcome \in {"ok", "err"} :
        /\ queryset.called = "none"
        /\ queryset' = IF outcome = "err"
                       THEN [queryset EXCEPT !.called = "err"]
                       ELSE [queryset EXCEPT
                                !.called = "pending",
                                !.out = queryset.records,
                                !.link = [i \in 1..Len(queryset.records) |-> "waiting"]]
        /\ QueryFrame

\* one link of the chain: _handleSingleRecord hydrates the record, and then
\* either hands it to the preload handler or stores the instance
Link ==
    \E i \in 1..Len(queryset.link), outcome \in {"ok", "err"} :
        /\ queryset.called = "pending"
        /\ queryset.link[i] = "waiting"
        /\ \A j \in 1..Len(queryset.link) : queryset.link[j] # "failed"
        /\ ready(queryset, i)
        /\ queryset' =
              IF outcome = "err"   \* new Klass(record) threw
              THEN [queryset EXCEPT !.link[i] = "failed"]
              ELSE IF queryset.preloadList
              THEN [queryset EXCEPT !.link[i] = "preloading"]
              ELSE [queryset EXCEPT !.link[i] = "done",
                                    !.out[i] = hydrate(queryset.records[i])]
        /\ QueryFrame

\* the callback of this._preloadHandler
Preloaded ==
    \E i \in 1..Len(queryset.link), outcome \in {"ok", "err"} :
        /\ queryset.link[i] = "preloading"
        /\ queryset' =
              IF outcome = "err"
              THEN [queryset EXCEPT !.link[i] = "failed"]
              ELSE [queryset EXCEPT !.link[i] = "done",
                                    !.out[i] = hydrate(queryset.records[i])]
        /\ QueryFrame

\* the end of the chain: callback(null, out), or callback(err) from the catch
Callback ==
    /\ queryset.called = "pending"
    /\ \A j \in 1..Len(queryset.link) : queryset.link[j] \notin {"preloading"}
    /\ \/ /\ \A j \in 1..Len(queryset.link) : queryset.link[j] = "done"
          /\ queryset' = [queryset EXCEPT !.called = "ok"]
       \/ /\ \E j \in 1..Len(queryset.link) : queryset.link[j] = "failed"
          /\ queryset' = [queryset EXCEPT !.called = "err"]
    /\ QueryFrame

QueryNext == ToArray \/ Link \/ Preloaded \/ Callback

QuerySpec == QueryInit /\ [][QueryNext]_vars

\* C26: toArray hydrates the records strictly one after another - the work on
\* a record starts only once every record before it is done - and calls back
\* with an array whose i-th element is the instance hydrated from the cursor's
\* i-th record
C26_Sequential ==
    /\ \A i \in 2..Len(queryset.link) :
           queryset.link[i] # "waiting" => queryset.link[i - 1] = "done"
    /\ queryset.called = "ok"
           => /\ Len(queryset.out) = Len(queryset.records)
              /\ \A i \in 1..Len(queryset.records) :
                     queryset.out[i] = hydrate(queryset.records[i])

\* two different records were hydrated and preloaded, and the callback ran
C26_Witness ==
    /\ queryset.called = "ok"
    /\ queryset.preloadList
    /\ Len(queryset.records) = 2
    /\ queryset.records[1] # queryset.records[2]

-----------------------------------------------------------------------------
(* Memoized getters: value is instance.__NAME__, invoked counts the calls of *)
(* the implementation, inflight those that have not finished; produced is   *)
(* the value the implementation last produced, and call, force, before and  *)
(* resolved describe the last call of the getter.                           *)

MemoValues == {sx, sy, Str("")}

MemoInit ==
    /\ WRITABLE_PROPERTIES = NoRegistry
    /\ READABLE_PROPERTIES = NoRegistry
    /\ queryset = NoQuerySet
    /\ memoized = NoMemo
    /\ origin = NoOrigin
    /\ db = [i \in DocIds |-> NoDoc]
    /\ nextId = 1
    /\ state = EmptyObj
    /\ persisted = NoState
    /\ life = "new"
    /\ installed = persisted
    /\ shared = {}
    /\ now = 0
    /\ req = Idle
    /\ res = NoRes
    /\ wlog = NoWrite
    /\ found = NoCall
    /\ nops = 0

MemoFrame ==
    UNCHANGED <<WRITABLE_PROPERTIES, READABLE_PROPERTIES, queryset, origin, state, persisted,
                shared, db, nextId, now, req, res, wlog, found, life, installed>>

\* memoizedFunction(options): resolve the stored value, or call the functor
memoizedFunction(m, force) ==
    IF Truthy(m.value) /\ ~force
    THEN [m EXCEPT !.call = "stored", !.force = force, !.before = m.produced,
                   !.resolved = m.value]
    ELSE [m EXCEPT !.call = "invoked", !.force = force, !.before = m.produced,
                   !.resolved = Undef,
                   !.invoked = m.invoked + 1, !.inflight = m.inflight + 1]

\* instance.getter(options)
Memoized ==
    \E force \in BOOLEAN :
        /\ nops < MaxOps
        /\ nops' = nops + 1
        /\ memoized' = memoizedFunction(memoized, force)
        /\ MemoFrame

\* the functor calls done(err, value)
FunctorDone ==
    \E value \in MemoValues, err \in BOOLEAN :
        /\ memoized.inflight > 0
        /\ memoized' = IF err
                       THEN [memoized EXCEPT !.inflight = memoized.inflight - 1,
                                             !.call = "done"]
                       ELSE [memoized EXCEPT !.inflight = memoized.inflight - 1,
                                             !.call = "done",
                                             !.value = value, !.produced = value]
        /\ UNCHANGED nops
        /\ MemoFrame

\* the promise the functor returned resolves, done never having been called
FunctorResolved ==
    \E value \in MemoValues :
        /\ memoized.inflight > 0
        /\ memoized' = [memoized EXCEPT !.inflight = memoized.inflight - 1,
                                        !.call = "resolved", !.produced = value]
        /\ UNCHANGED nops
        /\ MemoFrame

MemoNext == Memoized \/ FunctorDone \/ FunctorResolved

MemoSpec == MemoInit /\ [][MemoNext]_vars

\* C27: a memoized getter calls its implementation at most once unless forced -
\* once the implementation has produced a value, through its callback or its
\* promise, instance.__NAME__ holds it, every later call without force resolves
\* to it and does not call the implementation, and a forced call does
C27_Memoized ==
    /\ memoized.produced # Undef => memoized.value = memoized.produced
    /\ (memoized.call \in {"stored", "invoked"} /\ ~memoized.force
            /\ memoized.before # Undef)
           => (memoized.call = "stored" /\ memoized.resolved = memoized.before)
    /\ (memoized.call \in {"stored", "invoked"} /\ memoized.force)
           => memoized.call = "invoked"

-----------------------------------------------------------------------------
(* Klass.getOrCreate: the instance it yields is held in state and persisted, *)
(* found keeps the criteria and the identifiers of the documents they match  *)

\* options.defaults: none given, or the properties of the instance to create
CreateDefaults == {Undef, Obj([k \in {"a"} |-> sy]), Obj([k \in {"ab"} |-> sx])}

CreateInit ==
    /\ WRITABLE_PROPERTIES = NoRegistry
    /\ READABLE_PROPERTIES = NoRegistry
    /\ queryset = NoQuerySet
    /\ memoized = NoMemo
    /\ origin = NoOrigin
    /\ db \in Stores
    /\ nextId = 1 + Cardinality({i \in DocIds : db[i] # NoDoc})
    /\ state = EmptyObj
    /\ persisted = NoState
    /\ life = "new"
    /\ installed = persisted
    /\ shared = {}
    /\ now = 0
    /\ req = Idle
    /\ res = NoRes
    /\ wlog = NoWrite
    /\ found = NoFound
    /\ nops = 0

\* Klass.getOrCreate(criteria, {defaults: defaults}) up to the query of Klass.get
GetOrCreate ==
    \E crit \in Criteria, defaults \in CreateDefaults :
        /\ CanCall
        /\ nops' = nops + 1
        /\ req' = Request("getOrCreate", "get", 0, defaults, NoQuery, "", TRUE)
        /\ res' = Pending("getOrCreate")
        /\ found' = [NoFound EXCEPT !.kind = "getOrCreate", !.crit = crit,
                                    !.all = Matches(db, crit)]
        /\ wlog' = NoWrite
        /\ Adopt(Inst(EmptyObj, NoState, {}))
        /\ life' = "new"
        /\ installed' = NoState
        /\ UNCHANGED <<WRITABLE_PROPERTIES, READABLE_PROPERTIES, queryset, memoized, origin, db, nextId, now>>

\* Klass.getOrInitialize once Klass.get has answered with no error: the
\* hydrated match, or new Klass(defaults)
getOrInitialize(g, defaults) ==
    IF g.doc # Undef THEN Inst(g.doc, g.doc, {})
    ELSE Inst(JSONCopy(IF defaults = Undef THEN EmptyObj ELSE defaults), NoState, {})

\* the callback getOrCreate gives getOrInitialize: a dirty instance is saved,
\* any other is handed over as it is
createCall(i, errors) ==
    IF isDirty(i) THEN saveCall(i, "getOrCreate", "", TRUE, errors)
    ELSE [inst |-> i, req |-> Idle,
          res |-> Both("getOrCreate", "resolved", "none", "", IdOf(i.w), "get")]

\* the answer to the Klass.get of getOrInitialize
Initialized ==
    \E outcome \in {"ok", "err"}, errors \in {{}, ValidationFailures} :
        /\ req.stage = "get"
        /\ LET g == getOutcome(db, found.crit)
           IN IF outcome = "err"
              THEN /\ res' = [Both(req.op, "rejected", "driverError", "err", 0, "get")
                                 EXCEPT !.store = "err"]
                   /\ req' = Idle
                   /\ UNCHANGED <<state, persisted, shared>>
              ELSE IF g.status = "rejected"
              THEN /\ res' = [Both(req.op, "rejected", g.err, "", 0, "get")
                                 EXCEPT !.store = "many"]
                   /\ req' = Idle
                   /\ UNCHANGED <<state, persisted, shared>>
              ELSE Issue([createCall(getOrInitialize(g, req.doc), errors)
                             EXCEPT !.res.invalid = errors])
        /\ UNCHANGED <<WRITABLE_PROPERTIES, READABLE_PROPERTIES, queryset, memoized, origin, db, nextId, now, wlog,
                       found, nops, life, installed>>

CreateNext == GetOrCreate \/ Initialized \/ RespondInsert

CreateSpec == CreateInit /\ [][CreateNext]_vars

\* getOrCreate has settled, the store having answered every request
Created == res.op = "getOrCreate" /\ res.promise \in {"resolved", "rejected"}

\* C28: getOrCreate always yields a persisted instance - one that is not new
\* and has an _id: the single matching stored document, nothing being
\* inserted, or a newly inserted document when nothing matches, whatever the
\* defaults; more than one match rejects with a resultError
C28_GetOrCreate ==
    /\ (Created /\ res.promise = "resolved")
           => /\ ~isNew
              /\ IdOf(state) # 0
              /\ Cardinality(found.all) = 1
                     => /\ wlog.kind = "none"
                        /\ state = JSONCopy(db[CHOOSE i \in found.all : TRUE])
              /\ found.all = {} => wlog.kind = "insert"
    /\ (Created /\ Cardinality(found.all) > 1 /\ res.store # "err")
           => (res.promise = "rejected" /\ res.err = "resultError")

-----------------------------------------------------------------------------
(* State installation: origin.val is the object a state was installed from,  *)
(* as its owner still holds it; origin.w and origin.p tell whether the       *)
(* working state and the snapshot are that very object.                      *)

\* variant of setState: the object is kept, not copied
keepState(properties) == [val |-> properties, linked |-> TRUE]

\* utils.setState / utils.setPersistedState: what the slot holds afterwards
setState(properties) == [val |-> JSONCopy(properties), linked |-> FALSE]
setPersistedState(properties) == [val |-> JSONCopy(properties), linked |-> FALSE]

\* the objects given to initializeWith, hydrate, and the callbacks of save and
\* reload
InstallSources ==
    {Obj([k \in {"a", "c"} |-> IF k = "a" THEN Obj([j \in {"b"} |-> sx]) ELSE sx]),
     Obj([k \in {"_id", "a"} |-> IF k = "_id" THEN OidV(1) ELSE Obj([j \in {"b"} |-> sx])]),
     Obj([k \in {"a", "ab"} |-> IF k = "a" THEN sx ELSE DateStr(1)]),
     Obj([k \in {"a", "l"} |-> IF k = "a" THEN sy ELSE ArrOf(<<sx, sy>>)])}
OriginWrites == {<<<<"a">>, sy>>, <<<<"a", "b">>, sy>>, <<<<"c">>, sy>>, <<<<"l", "0">>, sy>>}

InstallInit ==
    /\ WRITABLE_PROPERTIES = NoRegistry
    /\ READABLE_PROPERTIES = NoRegistry
    /\ queryset = NoQuerySet
    /\ memoized = NoMemo
    /\ origin = NoOrigin
    /\ db = [i \in DocIds |-> NoDoc]
    /\ nextId = 1
    /\ state = EmptyObj
    /\ persisted = NoState
    /\ life = "new"
    /\ installed = persisted
    /\ shared = {}
    /\ now = 0
    /\ req = Idle
    /\ res = NoRes
    /\ wlog = NoWrite
    /\ found = NoCall
    /\ nops = 0

InstallFrame ==
    UNCHANGED <<WRITABLE_PROPERTIES, READABLE_PROPERTIES, queryset, memoized, db, nextId, now, req,
                res, wlog, life>>

\* one call was made: kind names it
Made(kind) ==
    /\ nops < MaxOps
    /\ nops' = nops + 1
    /\ found' = [NoCall EXCEPT !.kind = kind, !.before = state]
    /\ InstallFrame

\* the working state w and the snapshot p are installed from properties
Install(properties, w, p) ==
    /\ state' = w.val
    /\ persisted' = p.val
    /\ installed' = p.val
    /\ shared' = IF w.linked /\ p.linked THEN {<<>>} ELSE {}
    /\ origin' = [val |-> properties, w |-> w.linked, p |-> p.linked]

\* new Klass(properties): initializeWith(properties)
InitializeWith ==
    \E properties \in InstallSources :
        /\ Install(properties, setState(properties), [val |-> NoState, linked |-> FALSE])
        /\ Made("initializeWith")

\* Klass.hydrate(record), and the callbacks of save and reload, which install
\* both states from the record the store returned
InstallBoth ==
    \E record \in InstallSources, kind \in {"hydrate", "save", "reload"} :
        /\ kind = "hydrate" \/ origin # NoOrigin
        /\ Install(record, setState(record), setPersistedState(record))
        /\ Made(kind)

\* the owner of the object writes to it
MutateOrigin ==
    \E write \in OriginWrites :
        /\ origin # NoOrigin
        /\ SetIn(origin.val, write[1], write[2]) # Throw
        /\ origin' = [origin EXCEPT !.val = SetIn(origin.val, write[1], write[2])]
        /\ state' = IF origin.w THEN SetIn(state, write[1], write[2]) ELSE state
        /\ persisted' = IF origin.p THEN SetIn(persisted, write[1], write[2]) ELSE persisted
        /\ UNCHANGED <<shared, installed>>
        /\ Made("mutate")

\* instance.set(path, value) on the installed working state
SetInstalled ==
    \E write \in OriginWrites :
        /\ origin # NoOrigin
        /\ Adopt([set(Cur, write[1], write[2]) EXCEPT !.ex = FALSE])
        /\ origin' = IF origin.w /\ ~set(Cur, write[1], write[2]).ex
                     THEN [origin EXCEPT !.val = SetIn(origin.val, write[1], write[2])]
                     ELSE origin
        /\ UNCHANGED installed
        /\ Made("set")

InstallNext == InitializeWith \/ InstallBoth \/ MutateOrigin \/ SetInstalled

InstallSpec == InstallInit /\ [][InstallNext]_vars

\* C29: state installation copies deeply - after initializeWith, hydrate, save
\* or reload, a write to the object the state came from changes neither the
\* working state nor the snapshot, and a write to the working state changes
\* neither the snapshot nor that object
C29_DeepCopy ==
    [][/\ found'.kind = "mutate" => (state' = state /\ persisted' = persisted)
       /\ found'.kind = "set" => (persisted' = persisted /\ origin'.val = origin.val)]_vars

\* both states were installed from one record, whose owner then wrote to it
C29_Witness ==
    /\ found.kind = "mutate"
    /\ persisted # NoState
    /\ origin.val # state
    /\ Stored(origin.val, <<"a", "b">>) = sy
    /\ Stored(state, <<"a", "b">>) = sx

-----------------------------------------------------------------------------
(* Update patches of nested arrays: an instance hydrated from a document     *)
(* whose array `l` holds an element with an array `ab` of its own is edited   *)
(* and saved. The change set comes from deep-diff, which this repository      *)
(* only requires: its releases differ in whether the elements of an array     *)
(* are compared before or after its length change is reported, so the array  *)
(* paths reach the replacement loop in either order.                          *)

NestedDoc(inner, rest, top) ==
    Obj([k \in {"_id", "ab", "l", "updated_at"} |->
           CASE k = "_id" -> OidV(1)
             [] k = "ab" -> ArrOf(top)
             [] k = "l" -> ArrOf(<<Obj([j \in {"ab"} |-> ArrOf(inner)])>> \o rest)
             [] OTHER -> DateV(0)])
NestedDocs == {NestedDoc(<<sx, sy>>, <<sy>>, <<sx>>),
               NestedDoc(<<sx>>, <<>>, <<sx, sy>>)}
NestedArrayPaths == {<<"l">>, <<"l", "0", "ab">>, <<"ab">>}
NestedSetInputs == {<<"l", "0", "c">>, <<"l", "0", "ab", "0">>, <<"l", "0">>}

\* the array paths in the order of the change set, or in the opposite order
ReverseSeq(s) == [j \in 1..Len(s) |-> s[Len(s) + 1 - j]]
orderedPaths(arrayPaths, lengthsFirst) ==
    IF lengthsFirst THEN ReverseSeq(arrayPaths) ELSE arrayPaths

\* getUpdateQuery(instance) for either order of the change set
getUpdateQueryIn(i, lengthsFirst) ==
    LET changeset == getChangeSet(i)
    IN IF changeset = <<>> THEN NoQuery
       ELSE LET c == collectChanges(changeset, Query(TRUE, <<>>, FALSE, {}), <<>>)
            IN replaceArrays(c[1], orderedPaths(c[2], lengthsFirst), i)

\* Klass.prototype.save of a valid instance, without options
savePatch(i, i2, lengthsFirst) ==
    savePersist(i, i2, getUpdateQueryIn(i2, lengthsFirst), "save", "", TRUE)

PatchInit ==
    /\ WRITABLE_PROPERTIES = NoRegistry
    /\ READABLE_PROPERTIES = NoRegistry
    /\ queryset = NoQuerySet
    /\ memoized = NoMemo
    /\ origin = NoOrigin
    /\ \E doc \in NestedDocs :
          /\ db = [i \in DocIds |-> IF i = 1 THEN doc ELSE NoDoc]
          /\ state = hydrate(doc).w
          /\ persisted = hydrate(doc).p
    /\ nextId = 2
    /\ life = "hydrated"
    /\ installed = persisted
    /\ shared = {}
    /\ now = 0
    /\ req = Idle
    /\ res = NoRes
    /\ wlog = NoWrite
    /\ found = NoFound
    /\ nops = 0

PatchSet ==
    \E path \in NestedSetInputs :
        /\ CanCall
        /\ Mutated("set", "", set(Cur, path, sy))

PatchPush ==
    \E path \in NestedArrayPaths :
        /\ CanCall
        /\ Mutated("push", "", push(Cur, path, sx))

PatchSplice ==
    \E path \in NestedArrayPaths, index \in 0..1 :
        /\ CanCall
        /\ Mutated("splice", "", splice(Cur, path, index, 1))

PatchSave ==
    \E lengthsFirst \in BOOLEAN :
        /\ req = Idle
        /\ Issue(savePatch(Cur, set(Cur, <<"updated_at">>, DateV(now)), lengthsFirst))
        /\ wlog' = NoWrite
        /\ found' = NoFound
        /\ nops' = nops
        /\ Frame

PatchNext == Tick \/ PatchSet \/ PatchPush \/ PatchSplice \/ PatchSave
PatchSpec == PatchInit /\ [][PatchNext]_vars

\* the array at the path changed its length since the snapshot
LengthChanged(path) ==
    LET was == deepFetch(Persisted(persisted), path)
        is == deepFetch(state, path)
    IN was.t = "a" /\ is.t = "a" /\ ArrLen(was) # ArrLen(is)
\* the key addresses an indexed position under the path
IndexNested(key, path) ==
    /\ Len(key) > Len(path)
    /\ SubSeq(key, 1, Len(path)) = path
    /\ IsIndex(key[Len(path) + 1])
PatchIssued == req.stage = "update" /\ req.q.kind = "query"
Outermost(path) ==
    \A other \in NestedArrayPaths : ~(LengthChanged(other) /\ IndexNested(path, other))

-----------------------------------------------------------------------------
(* Saves of a persisted instance *)

\* the step is a call of save() that validate() let pass, on a persisted instance
SavePassed ==
    /\ nops' = nops + 1
    /\ res'.op = "save"
    /\ res'.invalid = {}
    /\ persisted # NoState

\* C31: every save of a persisted instance that passes validation stamps
\* updated_at with the current time and issues one storage update request; it
\* never resolves through the no-changes short-circuit, and it leaves
\* created_at as it was.
C31_SaveWrites ==
    [][SavePassed =>
          /\ req'.stage = "update"
          /\ res'.branch # "noop"
          /\ Prop(state', "updated_at")
               = Prop(set(Cur, <<"updated_at">>, DateV(now)).w, "updated_at")
          /\ Prop(state', "created_at") = Prop(state, "created_at")]_vars

-----------------------------------------------------------------------------
(* directUpdateWith(context): the context is the list of its own properties  *)
(* in the order Object.keys yields them, each a key and a value               *)

Entry(key, val) == [key |-> key, val |-> val]
OperatorChars(k) ==
    CASE k = "$set" -> <<"$", "s", "e", "t">>
      [] k = "$unset" -> <<"$", "u", "n", "s", "e", "t">>
      [] OTHER -> Chars(k)
\* /^\$/.test(prop)
isOperator(prop) == Head(OperatorChars(prop)) = "$"

\* Object.keys(args.criteria).forEach: an operator replaces query[prop], any
\* other property is assigned into the object query.$set refers to
RECURSIVE directFold(_, _)
directFold(context, query) ==
    IF context = <<>> THEN query
    ELSE LET e == Head(context)
         IN directFold(Tail(context),
                       IF isOperator(e.key) THEN MapPut(query, e.key, e.val)
                       ELSE MapPut(query, "$set", Put(query["$set"], e.key, e.val)))

\* the query directUpdateWith sends: an empty $set is deleted
directUpdateQuery(context) ==
    LET query == directFold(context, [k \in {"$set"} |-> EmptyObj])
    IN IF DOMAIN query["$set"].kv = {} THEN MapDrop(query, {"$set"}) ELSE query

\* the query as the store reads it
OperandPaths(query, op) ==
    IF op \in DOMAIN query THEN {<<k>> : k \in DOMAIN query[op].kv} ELSE {}
asStoreQuery(query) ==
    Query("$set" \in DOMAIN query,
          [path \in OperandPaths(query, "$set") |-> query["$set"].kv[path[1]]],
          "$unset" \in DOMAIN query, OperandPaths(query, "$unset"))

DirectValues(key) ==
    CASE key = "$set" -> {Obj([k \in {"c"} |-> sx]), Obj([k \in {"a"} |-> sy])}
      [] key = "$unset" -> {Obj([k \in {"ab"} |-> Str("")])}
      [] key = "a" -> {sx, sy}
      [] OTHER -> {sy}
DirectKeys == {"a", "b", "$set", "$unset"}
DirectContexts ==
    {<<Entry(k, v)>> : k \in DirectKeys, v \in UNION {DirectValues(j) : j \in DirectKeys}}
    \cup {<<e1[1], e2[1]>> :
            e1 \in {<<Entry(k, v)>> : k \in DirectKeys,
                                      v \in UNION {DirectValues(j) : j \in DirectKeys}},
            e2 \in {<<Entry(k, v)>> : k \in DirectKeys,
                                      v \in UNION {DirectValues(j) : j \in DirectKeys}}}
WellFormed(context) ==
    /\ \A j \in 1..Len(context) : context[j].val \in DirectValues(context[j].key)
    /\ \A j, k \in 1..Len(context) : j # k => context[j].key # context[k].key

DirectInit ==
    /\ WRITABLE_PROPERTIES = NoRegistry
    /\ READABLE_PROPERTIES = NoRegistry
    /\ queryset = NoQuerySet
    /\ memoized = NoMemo
    /\ origin = NoOrigin
    /\ db = [i \in DocIds |-> IF i = 1 THEN Doc1 ELSE NoDoc]
    /\ nextId = 2
    /\ state = hydrate(Doc1).w
    /\ persisted = hydrate(Doc1).p
    /\ life = "hydrated"
    /\ installed = persisted
    /\ shared = {}
    /\ now = 0
    /\ req = Idle
    /\ res = NoRes
    /\ wlog = NoWrite
    /\ found = NoFound
    /\ nops = 0

DirectPatch ==
    \E context \in DirectContexts :
        /\ WellFormed(context)
        /\ CanCall
        /\ found' = [kind |-> "direct", context |-> context,
                     query |-> directUpdateQuery(context)]
        /\ req' = Request("directUpdateWith", "update", IdOf(state), Undef,
                          asStoreQuery(directUpdateQuery(context)), "", FALSE)
        /\ res' = Pending("directUpdateWith")
        /\ nops' = nops + 1
        /\ wlog' = NoWrite
        /\ UNCHANGED <<state, persisted, shared>>
        /\ Frame

DirectNext == DirectPatch \/ RespondUpdate \/ RespondFind
DirectSpec == DirectInit /\ [][DirectNext]_vars

\* the query holds the entry: under its own key if it is an operator, whose
\* operand is kept whole, and under $set otherwise
Carried(query, e) ==
    IF isOperator(e.key)
    THEN /\ e.key \in DOMAIN query
         /\ \A k \in DOMAIN e.val.kv : HasKey(query[e.key], k)
                                        /\ query[e.key].kv[k] = e.val.kv[k]
         /\ e.key # "$set" => query[e.key] = e.val
    ELSE /\ "$set" \in DOMAIN query
         /\ HasKey(query["$set"], e.key)
         /\ query["$set"].kv[e.key] = e.val
NothingToSet(context) ==
    \A j \in 1..Len(context) : isOperator(context[j].key) /\ context[j].key # "$set"

\* C32: the query of directUpdateWith carries every operator of the patch,
\* carries every other key with its value under $set, also when the patch
\* brings a $set of its own, and has no $set when there is nothing to set.
C32_DirectQuery ==
    found.kind = "direct" =>
        /\ \A j \in 1..Len(found.context) : Carried(found.query, found.context[j])
        /\ NothingToSet(found.context) => "$set" \notin DOMAIN found.query

-----------------------------------------------------------------------------
(* updateWith(data) for data with one entry, written with a dot-delimited    *)
(* key, {'a.b': v}, or as nested objects, {a: {b: v}}                         *)

Data(form, path, val) == [form |-> form, path |-> path, val |-> val]
RECURSIVE Nest(_, _)
Nest(path, val) ==
    IF path = <<>> THEN val ELSE Obj([k \in {Head(path)} |-> Nest(Tail(path), val)])
IsLeaf(v) == ~((IsContainer(v) /\ DOMAIN v.kv # {}) \/ v.t = "id")

\* Object.keys(flatten(args.criteria)): flat descends into the value of a
\* dotted key as it does into any other
flatData(data) ==
    IF data.form = "nested" THEN flatten(Nest(data.path, data.val), <<>>)
    ELSE IF IsLeaf(data.val) THEN <<data.path>>
    ELSE flatten(data.val, data.path)

\* args.criteria[prop]: the own property of that very name
ownProperty(data, prop) ==
    IF data.form = "dotted" \/ Len(data.path) = 1
    THEN IF prop = data.path THEN data.val ELSE Undef
    ELSE Undef

\* utils.deepFetch(args.criteria, prop): a dotted key is no step of any path
fetched(data, prop) ==
    deepFetch(IF data.form = "dotted" /\ Len(data.path) > 1 THEN EmptyObj
              ELSE Nest(data.path, data.val), prop)

\* the forEach of updateWith
RECURSIVE mergeData(_, _, _)
mergeData(i, data, props) ==
    IF props = <<>> \/ i.ex THEN i
    ELSE mergeData(set(i, Head(props),
                       IF Truthy(ownProperty(data, Head(props)))
                       THEN ownProperty(data, Head(props))
                       ELSE fetched(data, Head(props))),
                   data, Tail(props))

EntryPaths == {<<"c">>, <<"a", "c">>, <<"b", "c">>}
EntryValues == {sx, Str(""), EmptyObj, Obj([k \in {"c"} |-> sy]), ArrOf(<<sx>>)}
EntryData == {Data(form, path, val) :
                form \in {"dotted", "nested"}, path \in EntryPaths, val \in EntryValues}

MergeInit ==
    /\ WRITABLE_PROPERTIES = NoRegistry
    /\ READABLE_PROPERTIES = NoRegistry
    /\ queryset = NoQuerySet
    /\ memoized = NoMemo
    /\ origin = NoOrigin
    /\ \E doc \in {Doc1, Doc2(1)} :
          /\ db = [i \in DocIds |-> IF i = 1 THEN doc ELSE NoDoc]
          /\ state = hydrate(doc).w
          /\ persisted = hydrate(doc).p
    /\ nextId = 2
    /\ life = "hydrated"
    /\ installed = persisted
    /\ shared = {}
    /\ now = 0
    /\ req = Idle
    /\ res = NoRes
    /\ wlog = NoWrite
    /\ found = NoFound
    /\ nops = 0

UpdateWithData ==
    \E data \in EntryData :
        /\ CanCall
        /\ Issue(updateWithCall(mergeData(Cur, data, flatData(data))))
        /\ found' = [kind |-> "updateWith", data |-> data]
        /\ nops' = nops + 1
        /\ wlog' = NoWrite
        /\ Frame

MergeNext == UpdateWithData \/ RespondUpdate \/ RespondFind
MergeSpec == MergeInit /\ [][MergeNext]_vars

\* what the call yields for the same entry written as nested objects
NestedTwin(data) ==
    updateWithCall(mergeData(Cur, [data EXCEPT !.form = "nested"],
                             flatData([data EXCEPT !.form = "nested"])))

\* C33: updateWith with a dot-delimited key leaves the working state, and
\* sends the store the request, that updateWith with the same entry as nested
\* objects does on an equal instance, whatever the value.
C33_DottedAsNested ==
    [][(nops' = nops + 1 /\ found'.kind = "updateWith") =>
          /\ state' = NestedTwin(found'.data).inst.w
          /\ req' = NestedTwin(found'.data).req]_vars

-----------------------------------------------------------------------------
(* QuerySet.then / catch / toArray: calls on one QuerySet, one after another. *)
(* handler is _finalErrorHandler: 0 is the function of the constructor, k > 0  *)
(* the k-th function given to catch, -1 none (the property was deleted).       *)
(* fired[k] counts the runs of the k-th function; delivered counts the runs of *)
(* the callback given to this._cursor-backed toArray in the current call, and  *)
(* thenCalled those of the callback given to then.                             *)

NoHandler == 0 - 1

\* variant of cleared: the handler stays registered
kept(handler) == handler

\* delete this._finalErrorHandler
cleared(handler) == NoHandler

\* the callback then() gives to toArray, called with an error: func(err)
finalError(q) ==
    [q EXCEPT !.handler = cleared(q.handler),
              !.fired = IF q.handler >= 1 THEN [@ EXCEPT ![q.handler] = @ + 1] ELSE @,
              !.last = IF q.handler >= 1 THEN "handler"
                       ELSE IF q.handler = 0 THEN "default" ELSE "TypeError"]

\* callback(err)
calledBackWith(q) ==
    IF q.via = "then" THEN finalError([q EXCEPT !.delivered = @ + 1])
    ELSE [q EXCEPT !.delivered = @ + 1, !.last = "error"]

\* chain.then(callback(null, out)).catch(callback(err)): an exception of the
\* callback rejects the promise the catch is attached to
calledBack(q, throws) ==
    LET q1 == [q EXCEPT !.delivered = @ + 1, !.last = "records",
                        !.thenCalled = IF q.via = "then" THEN @ + 1 ELSE @]
    IN IF throws THEN calledBackWith(q1) ELSE q1

ThenRecords == UNION {[1..n -> {Doc1, Doc2(1)}] : n \in 0..MaxLen}

ThenInit ==
    /\ WRITABLE_PROPERTIES = NoRegistry
    /\ READABLE_PROPERTIES = NoRegistry
    /\ \E records \in ThenRecords, preloadList \in BOOLEAN :
           queryset = [records |-> records, preloadList |-> preloadList, out |-> <<>>,
                       link |-> <<>>, called |-> "idle", via |-> "", handler |-> 0,
                       fired |-> <<>>, delivered |-> 0, thenCalled |-> 0, last |-> ""]
    /\ memoized = NoMemo
    /\ origin = NoOrigin
    /\ db = [i \in DocIds |-> NoDoc]
    /\ nextId = 1
    /\ state = EmptyObj
    /\ persisted = NoState
    /\ life = "new"
    /\ installed = persisted
    /\ shared = {}
    /\ now = 0
    /\ req = Idle
    /\ res = NoRes
    /\ wlog = NoWrite
    /\ found = NoCall
    /\ nops = 0

ThenFrame ==
    UNCHANGED <<WRITABLE_PROPERTIES, READABLE_PROPERTIES, memoized, origin, state, persisted,
                shared, db, nextId, now, req, res, wlog, found, life, installed>>

\* QuerySet.prototype.catch
Catch ==
    /\ nops < MaxCalls
    /\ queryset' = [queryset EXCEPT !.handler = Len(queryset.fired) + 1,
                                    !.fired = Append(@, 0)]
    /\ nops' = nops + 1
    /\ ThenFrame

\* a call starts: this._cursor.toArray is asked for the records
started(q, via) ==
    [q EXCEPT !.called = "none", !.via = via, !.out = <<>>, !.link = <<>>,
              !.delivered = 0, !.thenCalled = 0, !.last = ""]

\* QuerySet.prototype.then
Then ==
    /\ nops < MaxCalls
    /\ queryset.called \in {"idle", "ok", "err"}
    /\ queryset' = started(queryset, "then")
    /\ nops' = nops + 1
    /\ ThenFrame

\* QuerySet.prototype.toArray called with a callback of the client
ToArrayCall ==
    /\ nops < MaxCalls
    /\ queryset.called \in {"idle", "ok", "err"}
    /\ queryset' = started(queryset, "toArray")
    /\ nops' = nops + 1
    /\ ThenFrame

\* the callback of this._cursor.toArray
CursorAnswer ==
    \E outcome \in {"ok", "err"} :
        /\ queryset.called = "none"
        /\ queryset' = IF outcome = "err"
                       THEN [calledBackWith(queryset) EXCEPT !.called = "err"]
                       ELSE [queryset EXCEPT
                                !.called = "pending",
                                !.out = queryset.records,
                                !.link = [i \in 1..Len(queryset.records) |-> "waiting"]]
        /\ QueryFrame

\* the end of the chain; throws tells whether the callback given by the client
\* raises an exception when it is handed the records
ChainEnd ==
    /\ queryset.called = "pending"
    /\ \A j \in 1..Len(queryset.link) : queryset.link[j] # "preloading"
    /\ IF \E j \in 1..Len(queryset.link) : queryset.link[j] = "failed"
       THEN queryset' = [calledBackWith(queryset) EXCEPT !.called = "err"]
       ELSE /\ \A j \in 1..Len(queryset.link) : queryset.link[j] = "done"
            /\ \E throws \in BOOLEAN :
                  queryset' = [calledBack(queryset, throws) EXCEPT !.called = "ok"]
    /\ QueryFrame

ThenNext == Catch \/ Then \/ ToArrayCall \/ CursorAnswer \/ Link \/ Preloaded \/ ChainEnd
ThenSpec == ThenInit /\ [][ThenNext]_vars

\* the step delivers the failure of a materialization that then() started
ThenFailed ==
    /\ queryset.called \in {"none", "pending"}
    /\ queryset'.called = "err"
    /\ queryset.via = "then"

\* C34: when the materialization started by then() fails, the handler given to
\* catch is handed the error, the callback given to then is not called, and
\* the handler is cleared: no handler ever runs a second time.
C34_CatchOnce ==
    [][/\ ThenFailed =>
             /\ queryset'.thenCalled = 0
             /\ queryset'.handler = NoHandler
             /\ queryset.handler >= 1 =>
                   queryset'.fired[queryset.handler] = queryset.fired[queryset.handler] + 1
       /\ \A k \in 1..Len(queryset'.fired) : queryset'.fired[k] <= 1]_vars

\* a handler was given, a materialization failed and the handler ran; a later
\* materialization failed as well, with no handler left to run
C34_Witness ==
    /\ Len(queryset.fired) = 1
    /\ queryset.fired[1] = 1
    /\ queryset.called = "err"
    /\ queryset.via = "then"
    /\ queryset.last = "TypeError"
    /\ queryset.thenCalled = 0

\* C39: a call of toArray runs its callback exactly once, with an error or
\* with the array of all instances: never before the chain ends, once when it
\* has ended, also when a record fails and when the callback throws.
C39_CallbackOnce ==
    /\ queryset.called \in {"none", "pending"} => queryset.delivered = 0
    /\ queryset.called \in {"ok", "err"} => queryset.delivered = 1
    /\ (queryset.called = "ok" /\ queryset.delivered = 1)
          => \A i \in 1..Len(queryset.records) :
                 queryset.out[i] = hydrate(queryset.records[i])

\* C35: building the update patch never throws - whatever the snapshot and the
\* working state of a persisted instance, a save at the current clock reading
\* obtains a patch or the no-op result.
C35_PatchBuilt == ~isNew => getUpdateQuery(Stamped).kind \in {"query", "none"}

-----------------------------------------------------------------------------
(* Calls on an instance whose save is in flight: the client's code runs       *)
(* between the callbacks of the store, and may call set()                     *)

FlightInputs == {<<(<<"a">>), sy>>, <<(<<"c">>), sx>>, <<(<<"a", "c">>), sy>>}

FlightInit ==
    /\ WRITABLE_PROPERTIES = NoRegistry
    /\ READABLE_PROPERTIES = NoRegistry
    /\ queryset = NoQuerySet
    /\ memoized = NoMemo
    /\ origin = NoOrigin
    /\ \/ \E doc \in {Doc1, Doc2(1)} :
             /\ db = [i \in DocIds |-> IF i = 1 THEN doc ELSE NoDoc]
             /\ state = hydrate(doc).w
             /\ persisted = hydrate(doc).p
             /\ nextId = 2
             /\ life = "hydrated"
       \/ /\ db = [i \in DocIds |-> NoDoc]
          /\ state = JSONCopy(Obj([k \in {"a"} |-> sx]))
          /\ persisted = NoState
          /\ nextId = 1
          /\ life = "new"
    /\ installed = persisted
    /\ shared = {}
    /\ now = 0
    /\ req = Idle
    /\ res = NoRes
    /\ wlog = NoWrite
    /\ found = NoCall
    /\ nops = 0

\* Klass.prototype.save, without options
FlightSave ==
    /\ CanCall
    /\ Issue(saveCall(Cur, "save", "", TRUE, {}))
    /\ nops' = nops + 1
    /\ UNCHANGED <<wlog, found>>
    /\ Frame

\* Klass.prototype.set, called once while the update or the reload is awaited
SetInFlight ==
    \E in \in FlightInputs :
        /\ req.op = "save"
        /\ req.stage \in {"update", "find"}
        /\ found = NoCall
        /\ ~set(Cur, in[1], in[2]).ex
        /\ deepFetch(set(Cur, in[1], in[2]).w, in[1]) = in[2]
        /\ Adopt(set(Cur, in[1], in[2]))
        /\ found' = [NoCall EXCEPT !.kind = "set", !.path = in[1], !.arg = in[2]]
        /\ UNCHANGED <<req, res, wlog, nops>>
        /\ Frame

\* Klass.prototype.save, called again before the callback of insertRecord has
\* run: first is the request awaited, second the one this call issues
SaveInFlight ==
    /\ req.op = "save"
    /\ req.stage = "insert"
    /\ found = NoCall
    /\ nops < MaxOps
    /\ Adopt(saveCall(Cur, "save", "", TRUE, {}).inst)
    /\ found' = [kind |-> "save", first |-> req,
                 second |-> saveCall(Cur, "save", "", TRUE, {}).req]
    /\ nops' = nops + 1
    /\ UNCHANGED <<req, res, wlog>>
    /\ Frame

\* the callback of insertRecord for the second request
RespondSecondInsert ==
    /\ req = Idle
    /\ found.kind = "save"
    /\ found.second.stage = "insert"
    /\ nextId <= MaxId
    /\ LET stored == Put(found.second.doc, "_id", OidV(nextId))
       IN /\ db' = [db EXCEPT ![nextId] = stored]
          /\ Adopt(adoptStored(Cur, stored))
          /\ wlog' = [kind |-> "insert", before |-> NoDoc, after |-> stored,
                      as |-> "", clean |-> TRUE]
    /\ nextId' = nextId + 1
    /\ life' = "saved"
    /\ installed' = persisted'
    /\ found' = [found EXCEPT !.kind = "saved"]
    /\ UNCHANGED <<WRITABLE_PROPERTIES, READABLE_PROPERTIES, queryset, memoized, origin, now,
                   req, res, nops>>

FlightNext ==
    \/ Tick \/ FlightSave \/ SetInFlight \/ SaveInFlight
    \/ RespondInsert \/ RespondSecondInsert \/ RespondUpdate \/ RespondFind
FlightSpec == FlightInit /\ [][FlightNext]_vars

\* C36: a set() applied while a save is in flight is not lost - once the save
\* has settled, the value is in the stored document or it is still in the
\* working state, as a difference from the snapshot.
C36_SetNotLost ==
    (found.kind = "set" /\ req = Idle /\ res.op = "save" /\ Settled) =>
        \/ deepFetch(db[1], found.path) = found.arg
        \/ /\ deepFetch(state, found.path) = found.arg
           /\ deepFetch(persisted, found.path) # found.arg

\* C37: an instance is inserted at most once - a save called while the insert
\* of an earlier save is awaited sends no insert request of its own.
C37_InsertOnce ==
    found.kind \in {"save", "saved"} =>
        ~(found.first.stage = "insert" /\ found.second.stage = "insert")

-----------------------------------------------------------------------------
(* The document an operation addresses: an instance hydrated from document 1  *)
(* of a collection that also holds document 2, whose working state may be     *)
(* given another '_id'                                                        *)

IdInputs == {<<(<<"_id">>), OidV(2)>>, <<(<<"a">>), sy>>}

IdInit ==
    /\ WRITABLE_PROPERTIES = NoRegistry
    /\ READABLE_PROPERTIES = NoRegistry
    /\ queryset = NoQuerySet
    /\ memoized = NoMemo
    /\ origin = NoOrigin
    /\ db = [i \in DocIds |-> IF i \in {1, 2} THEN Doc2(i) ELSE NoDoc]
    /\ nextId = 3
    /\ state = hydrate(Doc2(1)).w
    /\ persisted = hydrate(Doc2(1)).p
    /\ life = "hydrated"
    /\ installed = persisted
    /\ shared = {}
    /\ now = 0
    /\ req = Idle
    /\ res = NoRes
    /\ wlog = NoWrite
    /\ found = NoFound
    /\ nops = 0

\* Klass.prototype.set of '_id' or of another field
SetId ==
    \E in \in IdInputs :
        /\ CanCall
        /\ Mutated("set", "", set(Cur, in[1], in[2]))

IdNext ==
    \/ Tick \/ SetId \/ FlightSave \/ DirectUpdateWith \/ Reload \/ Destroy
    \/ RespondUpdate \/ RespondFind \/ RespondRemove
IdSpec == IdInit /\ [][IdNext]_vars

\* C38: save, directUpdateWith, reload and destroy address the document of
\* the persisted identifier, whatever the working state holds at '_id': every
\* request names it, and no other document is ever changed or deleted.
C38_SameDocument ==
    [][/\ req'.stage \in {"update", "find", "remove"} => req'.id = IdOf(persisted)
       /\ \A i \in DocIds : i # IdOf(persisted) => db'[i] = db[i]]_vars

-----------------------------------------------------------------------------
(* utils.parseQueryArgs(args): args[0], args[1], args[2] of the caller, an     *)
(* argument left out being undefined                                          *)

Fn(i) == [t |-> "f", s |-> "", n |-> i, kv |-> <<>>]
noop == Fn(0)
TypeOf(v) ==
    IF v.t = "f" THEN "function" ELSE IF v.t = "u" THEN "undefined"
    ELSE IF v.t = "s" THEN "string" ELSE "object"

parseQueryArgs(args) ==
    IF TypeOf(args[2]) = "function"
    THEN [criteria |-> args[1], options |-> EmptyObj, done |-> args[2]]
    ELSE IF TypeOf(args[2]) = "undefined"
    THEN [criteria |-> args[1], options |-> EmptyObj,
          done |-> IF TypeOf(args[3]) = "undefined" THEN noop ELSE Undef]
    ELSE [criteria |-> args[1], options |-> args[2],
          done |-> IF Truthy(args[3]) THEN args[3] ELSE noop]

ArgCriteria == {Undef, EmptyObj, Obj([k \in {"a"} |-> sx]), sx}
ArgOptions == {Undef, Fn(1), EmptyObj, Obj([k \in {"a"} |-> sy]), Obj([k \in {"c"} |-> sx])}
ArgDone == {Undef, Fn(2), Fn(3)}

ArgsInit ==
    /\ WRITABLE_PROPERTIES = NoRegistry
    /\ READABLE_PROPERTIES = NoRegistry
    /\ queryset = NoQuerySet
    /\ memoized = NoMemo
    /\ origin = NoOrigin
    /\ db = [i \in DocIds |-> NoDoc]
    /\ nextId = 1
    /\ state = EmptyObj
    /\ persisted = NoState
    /\ life = "new"
    /\ installed = persisted
    /\ shared = {}
    /\ now = 0
    /\ req = Idle
    /\ res = NoRes
    /\ wlog = NoWrite
    /\ \E criteria \in ArgCriteria, options \in ArgOptions, done \in ArgDone :
          found = [kind |-> "args", args |-> <<criteria, options, done>>,
                   parsed |-> [criteria |-> Undef, options |-> Undef, done |-> Undef]]
    /\ nops = 0

ParseQueryArgs ==
    /\ found.kind = "args"
    /\ found' = [found EXCEPT !.kind = "parsed", !.parsed = parseQueryArgs(found.args)]
    /\ UNCHANGED <<WRITABLE_PROPERTIES, READABLE_PROPERTIES, queryset, memoized, origin, state,
                   persisted, shared, db, nextId, now, req, res, wlog, nops, life,
                   installed>>

ArgsNext == ParseQueryArgs
ArgsSpec == ArgsInit /\ [][ArgsNext]_vars

\* C40: for every supported shape of the arguments - with or without options,
\* with or without done, and with undefined in the place of the options - the
\* result holds an options object and a callable done.
C40_ParsedArgs ==
    found.kind = "parsed" =>
        /\ found.parsed.options.t = "o"
        /\ found.parsed.done.t = "f"

=============================================================================
